---- MODULE Spec2Model ----
(***************************************************************************)
(* Verification model of the lab-report extraction system.                 *)
(*                                                                         *)
(*   SpecRL      workers/extraction/rate_limiter.py (AdaptiveRateLimiter)  *)
(*   SpecCache   workers/extraction/cache_manager.py (CacheManager)        *)
(*   SpecExtract workers/extraction/single_vision_extractor.py (extract and *)
(*               its cache)                                                *)
(*   SpecPipeline the stages of SingleVisionExtractor.extract              *)
(*   SpecBatch   workers/extraction/batch_processor.py (BatchProcessor)    *)
(*               and process_document_batch of optimized_worker.py         *)
(*   SpecNorm    workers/extraction/strict_normalizer.py (StrictNormalizer)*)
(*   SpecPanel   workers/extraction/panel_validator.py (PanelValidator)    *)
(*   SpecJob     workers/extraction/main.py (process_document) under the   *)
(*               job timeout set by backend/api/documents.py               *)
(*   SpecIdent   the patient identity of single_vision_extractor.py        *)
(*               (_process_patient_identity and the patient memory)        *)
(*   SpecQuality workers/extraction/ocr_quality.py (evaluate_ocr_quality)  *)
(*                                                                         *)
(* Time is counted in whole ticks; window_seconds is WindowTicks ticks.    *)
(* The float products int(rpm * 0.8) and int(rpm / 0.8) of the source are  *)
(* equal to (rpm * 4) \div 5 and (rpm * 5) \div 4 for every rpm in         *)
(* 0..100000 (checked against CPython), so they are modelled in integers.  *)
(***************************************************************************)
EXTENDS Integers, Sequences, FiniteSets, TLC

(* ------------------------------ bounds --------------------------------- *)
MaxRpm == 4             \* requests_per_minute is drawn from 1..MaxRpm
MaxThreshold == 2       \* recovery_threshold is drawn from 1..MaxThreshold
WindowTicks == 2        \* window_seconds, in ticks
MaxTime == 3            \* the clock stops at MaxTime
MaxLen == 4             \* no acquire is started with MaxLen timestamps held
MaxSuccesses == 3       \* cap of the consecutive-success counter
NumThreads == 2         \* concurrent callers of the limiter
NumHashes == 2          \* distinct image contents (and file names)
MaxPayloadId == 1       \* distinct payloads of each shape given to cache_result
MaxCalls == 3           \* calls made on one CacheManager
NumDocIds == 2          \* document ids that may be submitted
NumPaths == 2           \* image file paths
MaxBatch == 2           \* documents (or images) in one batch
MaxWorkers == 2         \* max_workers of an injected BatchProcessor
MaxRows == 2            \* rows in one call of normalize
MaxResults == 3         \* results in one call of validate_panel_completeness
RingLen == 2            \* maxlen of the _patient_memory ring (20 in the source)
MaxDocuments == 3       \* documents whose patient identity is processed

(* ------------------------- program constants --------------------------- *)
DefaultMinRpm == 5      \* RateLimitConfig.min_requests_per_minute
FixtureMinRpm == 2      \* min_requests_per_minute of the test fixture
BackoffNum == 4         \* backoff_factor = 0.8 = BackoffNum / BackoffDen
BackoffDen == 5
WorkerCap == 15         \* process_document_batch: max_workers = min(15, len(docs))

Max(a, b) == IF a >= b THEN a ELSE b
Min(a, b) == IF a <= b THEN a ELSE b

Threads == 1..NumThreads

VARIABLES
    config,                 \* RateLimitConfig of the limiter
    now,                    \* time.time()
    requests,               \* self._requests, oldest first
    effective_rpm,          \* self._effective_rpm
    consecutive_successes,  \* self._consecutive_successes
    lock,                   \* holder of self._lock, 0 when free
    wakeAt,                 \* when the sleeping holder of the lock wakes
    lastOp,                 \* the call that returned last
    lastWaited,             \* whether the last acquire slept
    steady,                 \* no report since construction or the last reset
    nAcq,                   \* acquires returned while steady (up to rpm + 2)
    firstTs                 \* timestamp of the first of them

rlVars == <<config, now, requests, effective_rpm, consecutive_successes,
            lock, wakeAt, lastOp, lastWaited, steady, nAcq, firstTs>>

VARIABLES
    cacheConfig,            \* CacheConfig, and whether a redis client was given
    redisUp,                \* the Redis server answers (else its calls raise)
    diskUp,                 \* the cache directory can be used (else OSError)
    redisStore,             \* lab_cache:<hash> -> decoded JSON entry
    diskStore,              \* <hash>.cache -> pickled entry
    stats,                  \* CacheStats
    lastCall,               \* the last call, what it returned, and the call before
    nCalls                  \* calls made so far

cacheVars == <<cacheConfig, redisUp, diskUp, redisStore, diskStore, stats,
               lastCall, nCalls>>

VARIABLES
    processor,              \* the BatchProcessor and the entry point called
    documents,              \* the Document table: id -> row
    document_ids,           \* the ids given to process_document_batch
    image_paths,            \* the paths given to process_images_async
    tasks,                  \* the _process_single_image coroutine of each path
    sub_batch,              \* index of the first path of the sub-batch in flight
    batch_result,           \* the BatchResult being filled
    results,                \* the dict process_document_batch returns
    tracker,                \* the batch_job:<job_id> record
    phase                   \* how far the batch call has got

batchVars == <<processor, documents, document_ids, image_paths, tasks,
               sub_batch, batch_result, results, tracker, phase>>

VARIABLES
    mappings,               \* StrictNormalizer.mappings, the vocabulary
    raw_rows,               \* the rows given to normalize
    normalizer_result       \* the NormalizerResult

normVars == <<mappings, raw_rows, normalizer_result>>

VARIABLES
    lab_results,            \* the results given to validate_panel_completeness
    panel_validation        \* the dict it returned

panelVars == <<lab_results, panel_validation>>

VARIABLES
    extraction              \* the last VisionExtractionResult of extract and the
                            \* calls that extract made on the limiter and the model

extractVars == <<extraction>>

VARIABLES
    document,               \* the committed Document row: status, processing_stage
    job                     \* the process_document job: where it is, what it met

jobVars == <<document, job>>

VARIABLES
    patient_memory,         \* the module-level _patient_memory ring
    patient_info,           \* the last dict given to and returned by
                            \* _process_patient_identity
    processed               \* documents whose identity has been processed

identVars == <<patient_memory, patient_info, processed>>

VARIABLES
    quality                 \* the image metrics and the QualityResult of
                            \* evaluate_ocr_quality

qualityVars == <<quality>>

restVars == <<normVars, panelVars, extractVars, jobVars, identVars, qualityVars>>

vars == <<rlVars, cacheVars, batchVars, restVars>>

otherThanRL == <<cacheVars, batchVars, restVars>>
otherThanCache == <<rlVars, batchVars, restVars>>

(* ===================== AdaptiveRateLimiter ============================= *)

\* RateLimitConfig(...): every field may be given by the caller;
\* get_rate_limiter(k) gives requests_per_minute = k and keeps the default
\* min_requests_per_minute.
RateLimitConfig ==
    [requests_per_minute : 1..MaxRpm,
     min_requests_per_minute : {DefaultMinRpm, FixtureMinRpm},
     recovery_threshold : 1..MaxThreshold,
     adaptive_backoff : BOOLEAN,
     window_seconds : {WindowTicks}]

\* _clean_old_requests: popleft while the oldest is before the cutoff
RECURSIVE CleanOldRequests(_, _, _)
CleanOldRequests(reqs, t, window) ==
    IF reqs # <<>> /\ Head(reqs) < t - window
    THEN CleanOldRequests(Tail(reqs), t, window)
    ELSE reqs

\* _wait_time, on the deque as _clean_old_requests left it
WaitTimeNoWait(cleaned, rpm, t, window) == 0
WaitTime(cleaned, rpm, t, window) ==
    IF Len(cleaned) < rpm THEN 0
    ELSE Max(0, (Head(cleaned) + window) - t)

\* the new effective rpm of report_rate_limit_error
BackoffRpmNoFloor(rpm, cfg) == (rpm * BackoffNum) \div BackoffDen
BackoffRpm(rpm, cfg) ==
    Max((rpm * BackoffNum) \div BackoffDen, cfg.min_requests_per_minute)

\* the new effective rpm of a recovery in report_success
RecoverRpm(rpm, cfg) ==
    Min((rpm * BackoffDen) \div BackoffNum, cfg.requests_per_minute)

\* timestamps that lie within the trailing window at time t
RECURSIVE InWindow(_, _, _)
InWindow(reqs, t, window) ==
    IF reqs = <<>> THEN 0
    ELSE (IF Head(reqs) > t - window THEN 1 ELSE 0)
         + InWindow(Tail(reqs), t, window)

RLStart ==
    /\ config \in RateLimitConfig
    /\ now = 0
    /\ requests = <<>>
    /\ effective_rpm = config.requests_per_minute
    /\ consecutive_successes = 0
    /\ lock = 0
    /\ wakeAt = 0
    /\ lastOp = "init"
    /\ lastWaited = FALSE
    /\ steady = TRUE
    /\ nAcq = 0
    /\ firstTs = 0

\* bookkeeping of an acquire that returns at time `now`
Returned(waited) ==
    /\ lastOp' = "acquire"
    /\ lastWaited' = waited
    /\ nAcq' = IF steady /\ nAcq <= effective_rpm + 1 THEN nAcq + 1 ELSE nAcq
    /\ firstTs' = IF steady /\ nAcq = 0 THEN now ELSE firstTs

\* acquire, up to its return or up to time.sleep (the lock stays held)
Acquire(t) ==
    /\ UNCHANGED otherThanRL
    /\ lock = 0
    /\ Len(requests) < MaxLen
    /\ LET cleaned == CleanOldRequests(requests, now, config.window_seconds)
           wait == WaitTime(cleaned, effective_rpm, now, config.window_seconds)
       IN IF wait > 0
          THEN /\ lock' = t
               /\ wakeAt' = now + wait
               /\ requests' = cleaned
               /\ lastOp' = "sleep"
               /\ UNCHANGED <<lastWaited, nAcq, firstTs>>
          ELSE /\ requests' = Append(cleaned, now)
               /\ Returned(FALSE)
               /\ UNCHANGED <<lock, wakeAt>>
    /\ UNCHANGED <<config, now, effective_rpm, consecutive_successes, steady>>

\* acquire, from the return of time.sleep to the release of the lock
AcquireWake(t) ==
    /\ UNCHANGED otherThanRL
    /\ lock = t
    /\ now >= wakeAt
    /\ requests' = Append(CleanOldRequests(requests, now, config.window_seconds), now)
    /\ lock' = 0
    /\ Returned(TRUE)
    /\ UNCHANGED <<config, now, effective_rpm, consecutive_successes, wakeAt, steady>>

ReportRateLimitError(t) ==
    /\ UNCHANGED otherThanRL
    /\ lock # t
    /\ lastOp' = "error"
    /\ IF ~config.adaptive_backoff
       THEN UNCHANGED <<effective_rpm, consecutive_successes, steady, nAcq>>
       ELSE /\ lock = 0
            /\ effective_rpm' = BackoffRpm(effective_rpm, config)
            /\ consecutive_successes' = 0
            /\ steady' = FALSE
            /\ nAcq' = 0
    /\ UNCHANGED <<config, now, requests, lock, wakeAt, lastWaited, firstTs>>

ReportSuccess(t) ==
    /\ UNCHANGED otherThanRL
    /\ lock # t
    /\ lastOp' = "success"
    /\ IF ~config.adaptive_backoff
       THEN UNCHANGED <<effective_rpm, consecutive_successes, steady, nAcq>>
       ELSE /\ lock = 0
            /\ consecutive_successes < MaxSuccesses
            /\ IF /\ consecutive_successes + 1 >= config.recovery_threshold
                  /\ effective_rpm < config.requests_per_minute
               THEN /\ effective_rpm' = RecoverRpm(effective_rpm, config)
                    /\ consecutive_successes' = 0
               ELSE /\ consecutive_successes' = consecutive_successes + 1
                    /\ UNCHANGED effective_rpm
            /\ steady' = FALSE
            /\ nAcq' = 0
    /\ UNCHANGED <<config, now, requests, lock, wakeAt, lastWaited, firstTs>>

GetStats(t) ==
    /\ UNCHANGED otherThanRL
    /\ lock = 0
    /\ requests' = CleanOldRequests(requests, now, config.window_seconds)
    /\ lastOp' = "stats"
    /\ UNCHANGED <<config, now, effective_rpm, consecutive_successes, lock,
                   wakeAt, lastWaited, steady, nAcq, firstTs>>

Reset(t) ==
    /\ UNCHANGED otherThanRL
    /\ lock = 0
    /\ requests' = <<>>
    /\ effective_rpm' = config.requests_per_minute
    /\ consecutive_successes' = 0
    /\ lastOp' = "reset"
    /\ steady' = TRUE
    /\ nAcq' = 0
    /\ UNCHANGED <<config, now, lock, wakeAt, lastWaited, firstTs>>

\* the clock advances
Tick ==
    /\ UNCHANGED otherThanRL
    /\ now < MaxTime
    /\ now' = now + 1
    /\ lastOp' = "tick"
    /\ UNCHANGED <<config, requests, effective_rpm, consecutive_successes,
                   lock, wakeAt, lastWaited, steady, nAcq, firstTs>>

RLStep ==
    \/ \E t \in Threads : Acquire(t)
    \/ \E t \in Threads : AcquireWake(t)
    \/ \E t \in Threads : ReportRateLimitError(t)
    \/ \E t \in Threads : ReportSuccess(t)
    \/ \E t \in Threads : GetStats(t)
    \/ \E t \in Threads : Reset(t)
    \/ Tick


(* =========================== CacheManager ============================== *)

Hashes == 1..NumHashes

\* A payload is a Python value. Its shape says what json.dumps / json.loads
\* make of it: "json" comes back equal, a value holding a "tuple" comes back
\* holding a list, an "opaque" value (a datetime, say) makes json.dumps
\* raise TypeError.
NoPayload == [shape |-> "none", id |-> 0]
Payloads == [shape : {"json", "tuple", "opaque"}, id : 1..MaxPayloadId]

\* the cache entry built by cache_result; absent entries are NoEntry (None)
NoEntry == [present |-> FALSE, result |-> NoPayload]
Entry(p) == [present |-> TRUE, result |-> p]

\* json.dumps(data) succeeds
JsonSerializable(e) == e.result.shape # "opaque"
\* json.loads(json.dumps(data))
JsonRoundTrip(e) ==
    [e EXCEPT !.result.shape = IF @ = "tuple" THEN "list" ELSE @]

CacheConfig ==
    [redis_enabled : BOOLEAN, disk_enabled : BOOLEAN, has_redis : BOOLEAN]

\* `self.config.redis_enabled and self.redis`
Tier1(cfg) == cfg.redis_enabled /\ cfg.has_redis
Tier2(cfg) == cfg.disk_enabled

NoStats ==
    [redis_hits |-> 0, redis_misses |-> 0, disk_hits |-> 0,
     disk_misses |-> 0, cache_writes |-> 0]

\* _get_from_redis: any exception is logged and None returned
GetFromRedis(store, up, h) ==
    IF up /\ store[h].present THEN store[h] ELSE NoEntry

\* _set_to_redis: json.dumps, then setex; any exception is logged
SetToRedis(store, up, h, e) ==
    IF JsonSerializable(e) /\ up
    THEN [store EXCEPT ![h] = JsonRoundTrip(e)]
    ELSE store

\* _get_from_disk: any exception is logged and None returned
GetFromDisk(store, up, h) ==
    IF up /\ store[h].present THEN store[h] ELSE NoEntry

\* _set_to_disk: pickle.dump; any exception is logged
SetToDisk(store, up, h, e) ==
    IF up THEN [store EXCEPT ![h] = e] ELSE store

\* get_cached_result: what it returns and which tiers it consulted
Lookup(h) ==
    LET r1 == GetFromRedis(redisStore, redisUp, h)
        r2 == GetFromDisk(diskStore, diskUp, h)
    IN  IF Tier1(cacheConfig) /\ r1.present
        THEN [ret |-> r1, t1 |-> "hit", t2 |-> "skip"]
        ELSE IF Tier2(cacheConfig) /\ r2.present
        THEN [ret |-> r2, t1 |-> IF Tier1(cacheConfig) THEN "miss" ELSE "skip",
              t2 |-> "hit"]
        ELSE [ret |-> NoEntry,
              t1 |-> IF Tier1(cacheConfig) THEN "miss" ELSE "skip",
              t2 |-> IF Tier2(cacheConfig) THEN "miss" ELSE "skip"]

\* get_cached_result: the counters after the lookup
LookupStats(st, res) ==
    [st EXCEPT
        !.redis_hits = IF res.t1 = "hit" THEN @ + 1 ELSE @,
        !.redis_misses = IF res.t1 = "miss" THEN @ + 1 ELSE @,
        !.disk_hits = IF res.t2 = "hit" THEN @ + 1 ELSE @,
        !.disk_misses = IF res.t2 = "miss" THEN @ + 1 ELSE @]

\* get_cached_result: Tier 1 after the lookup (a Tier-2 hit is promoted)
LookupRedis(res, h) ==
    IF res.t2 = "hit" /\ Tier1(cacheConfig)
    THEN SetToRedis(redisStore, redisUp, h, res.ret)
    ELSE redisStore

\* cache_result: the tiers after the write
WriteRedis(store, h, p) ==
    IF Tier1(cacheConfig) THEN SetToRedis(store, redisUp, h, Entry(p)) ELSE store
WriteDisk(store, h, p) ==
    IF Tier2(cacheConfig) THEN SetToDisk(store, diskUp, h, Entry(p)) ELSE store

\* the record of a call: its arguments, what it returned, whether it raised
NoDoc == [name |-> 0, bytes |-> 0]
BareCall(op, h, doc, arg, res, raised, outcome, wrote) ==
    [op |-> op, hash |-> h, doc |-> doc, arg |-> arg, ret |-> res.ret,
     t1 |-> res.t1, t2 |-> res.t2, raised |-> raised, outcome |-> outcome,
     wrote |-> wrote]
NoLookup == [ret |-> NoEntry, t1 |-> "skip", t2 |-> "skip"]
NoCall == BareCall("none", 0, NoDoc, NoPayload, NoLookup, FALSE, "none", 0)
Bare(call) == [f \in DOMAIN NoCall |-> call[f]]
Call(op, h, doc, arg, res, raised, outcome, wrote) ==
    [f \in DOMAIN NoCall \cup {"prev"} |->
        IF f = "prev" THEN Bare(lastCall)
        ELSE BareCall(op, h, doc, arg, res, raised, outcome, wrote)[f]]

\* one more call is made
Called ==
    /\ nCalls < MaxCalls
    /\ nCalls' = nCalls + 1

CacheStart ==
    /\ redisUp = TRUE
    /\ diskUp = TRUE
    /\ redisStore = [h \in Hashes |-> NoEntry]
    /\ diskStore = [h \in Hashes |-> NoEntry]
    /\ stats = NoStats
    /\ nCalls = 0
    /\ lastCall = [f \in DOMAIN NoCall \cup {"prev"} |->
                      IF f = "prev" THEN NoCall ELSE NoCall[f]]

GetCachedResult(h) ==
    /\ UNCHANGED otherThanCache
    /\ Called
    /\ LET res == Lookup(h)
       IN /\ stats' = LookupStats(stats, res)
          /\ redisStore' = LookupRedis(res, h)
          /\ lastCall' = Call("get", h, NoDoc, NoPayload, res, FALSE, "none", 0)
    /\ UNCHANGED <<cacheConfig, redisUp, diskUp, diskStore>>

CacheResult(h, p) ==
    /\ UNCHANGED otherThanCache
    /\ Called
    /\ redisStore' = WriteRedis(redisStore, h, p)
    /\ diskStore' = WriteDisk(diskStore, h, p)
    /\ stats' = [stats EXCEPT !.cache_writes = @ + 1]
    /\ lastCall' = Call("cache_result", h, NoDoc, p, NoLookup, FALSE, "none", 1)
    /\ UNCHANGED <<cacheConfig, redisUp, diskUp>>

\* invalidate: redis.delete is guarded by try/except, the disk part is not
Invalidate(h) ==
    /\ UNCHANGED otherThanCache
    /\ Called
    /\ redisStore' = IF Tier1(cacheConfig) /\ redisUp
                     THEN [redisStore EXCEPT ![h] = NoEntry] ELSE redisStore
    /\ diskStore' = IF Tier2(cacheConfig) /\ diskUp
                    THEN [diskStore EXCEPT ![h] = NoEntry] ELSE diskStore
    /\ lastCall' = Call("invalidate", h, NoDoc, NoPayload, NoLookup,
                        Tier2(cacheConfig) /\ ~diskUp, "none", 0)
    /\ UNCHANGED <<cacheConfig, redisUp, diskUp, stats>>

\* clear_all: the keys lab_cache:* are deleted from Redis (a failure is
\* logged); on disk the glob "*.cache" looks at the top of the cache
\* directory only, while _set_to_disk writes <dir>/<hash[:2]>/<hash>.cache,
\* so it finds none of the files; with the directory unusable the unguarded
\* disk part may raise (raises)
ClearAll(raises) ==
    /\ UNCHANGED otherThanCache
    /\ Called
    /\ raises => (Tier2(cacheConfig) /\ ~diskUp)
    /\ redisStore' = IF Tier1(cacheConfig) /\ redisUp
                     THEN [h \in Hashes |-> NoEntry] ELSE redisStore
    /\ lastCall' = Call("clear_all", 0, NoDoc, NoPayload, NoLookup, raises,
                        "none", 0)
    /\ UNCHANGED <<cacheConfig, redisUp, diskUp, diskStore, stats>>

\* the Redis server becomes unreachable, or reachable again
RedisOutage ==
    /\ UNCHANGED otherThanCache
    /\ Tier1(cacheConfig)
    /\ redisUp' = ~redisUp
    /\ lastCall' = Call("env", 0, NoDoc, NoPayload, NoLookup, FALSE, "none", 0)
    /\ UNCHANGED <<cacheConfig, diskUp, redisStore, diskStore, stats, nCalls>>

\* the cache directory becomes unusable, or usable again
DiskOutage ==
    /\ UNCHANGED otherThanCache
    /\ Tier2(cacheConfig)
    /\ diskUp' = ~diskUp
    /\ lastCall' = Call("env", 0, NoDoc, NoPayload, NoLookup, FALSE, "none", 0)
    /\ UNCHANGED <<cacheConfig, redisUp, redisStore, diskStore, stats, nCalls>>

\* the TTL given to setex runs out
RedisExpire(h) ==
    /\ UNCHANGED otherThanCache
    /\ redisStore[h].present
    /\ redisStore' = [redisStore EXCEPT ![h] = NoEntry]
    /\ lastCall' = Call("env", 0, NoDoc, NoPayload, NoLookup, FALSE, "none", 0)
    /\ UNCHANGED <<cacheConfig, redisUp, diskUp, diskStore, stats, nCalls>>

(* ============ SingleVisionExtractor.extract and its cache ============== *)

\* an image file: its name and its bytes
Docs == [name : 1..NumHashes, bytes : 1..NumHashes]

\* get_image_hash: the digest of the file's bytes
HashOfName(doc) == doc.name
HashOf(doc) == doc.bytes

\* cache_data of a successful extraction: dicts, lists, strings and numbers
ExtractionPayload(doc) == [shape |-> "json", id |-> doc.bytes]

\* What the stages of one extract call meet, in the order of the pipeline:
\* preprocess_image (the file decodes or the call raises), the quality gate,
\* the answers of the model to the verification, extraction and validation
\* prompts, whether normalize kept any row and whether it fell back to its
\* panel-scoped model question. A stage that is not reached is "unreached".
ModelFailures == {"unparsable", "error", "rate_limited"}
Unreached ==
    [load |-> "unreached", quality |-> "unreached", verification |-> "unreached",
     vision |-> "unreached", rows |-> "unreached", fallback |-> "unreached",
     validation |-> "unreached"]
Runs ==
    {r \in [load : {"ok", "raises"},
            quality : {"acceptable", "poor", "unreached"},
            verification : {"medical", "not_medical", "unreached"} \cup ModelFailures,
            vision : {"results", "empty", "unreached"} \cup ModelFailures,
            rows : {"some", "none", "unreached"},
            fallback : {"asked", "not_asked", "unreached"},
            validation : {"ok", "error", "rate_limited", "unreached"}] :
        /\ (r.quality = "unreached") = (r.load = "raises")
        /\ (r.verification = "unreached") = (r.quality # "acceptable")
        /\ (r.vision = "unreached") = (r.verification \in {"unreached", "not_medical"})
        /\ (r.rows = "unreached") = (r.vision # "results")
        /\ (r.fallback = "unreached") = (r.rows = "unreached")
        /\ (r.validation = "unreached") = (r.rows # "some")}

\* a run in which every stage goes well, and one the quality gate stops
CleanRun ==
    [load |-> "ok", quality |-> "acceptable", verification |-> "medical",
     vision |-> "results", rows |-> "some", fallback |-> "not_asked",
     validation |-> "ok"]
PoorRun == [Unreached EXCEPT !.load = "ok", !.quality = "poor"]

\* the calls one stage makes on the limiter and on the model, in order
\* _verify_medical_report and _vision_extract: acquire, generate_content,
\* report_success, then json.loads
GuardedCall(outcome) ==
    IF outcome = "error" THEN <<"acquire", "generate_content">>
    ELSE IF outcome = "rate_limited"
    THEN <<"acquire", "generate_content", "report_rate_limit_error">>
    ELSE <<"acquire", "generate_content", "report_success">>
\* _llm_validate: nothing for an empty list; json.loads precedes
\* report_success
ValidateCalls(outcome) ==
    IF outcome = "unreached" THEN <<>>
    ELSE IF outcome = "ok" THEN <<"acquire", "generate_content", "report_success">>
    ELSE IF outcome = "rate_limited"
    THEN <<"acquire", "generate_content", "report_rate_limit_error">>
    ELSE <<"acquire", "generate_content">>
\* StrictNormalizer._llm_panel_match and generate_safe_summary call the model
\* directly
FallbackCalls(fallback) == IF fallback = "asked" THEN <<"generate_content">> ELSE <<>>
SummaryCalls(rows) == IF rows = "some" THEN <<"generate_content">> ELSE <<>>

\* record stands for the data, confidence, issues and summary of the
\* VisionExtractionResult; Extract fills it in
NoExtraction ==
    [called |-> FALSE, from_cache |-> FALSE, success |-> FALSE, error |-> "none",
     run |-> Unreached, calls |-> <<>>, record |-> NoPayload]
Returns(success, error, run, calls) ==
    [called |-> TRUE, from_cache |-> FALSE, success |-> success, error |-> error,
     run |-> run, calls |-> calls, record |-> NoPayload]

\* the quality gate put after the document-type verification
ExtractPipelineVerifyFirst(run) ==
    IF run.load = "raises"
    THEN Returns(FALSE, "exception", run, <<>>)
    ELSE IF run.quality = "poor"
    THEN Returns(FALSE, "Image quality too poor", run, GuardedCall("medical"))
    ELSE IF run.verification = "not_medical"
    THEN Returns(FALSE, "Not a medical lab report", run, GuardedCall(run.verification))
    ELSE IF run.vision # "results"
    THEN Returns(FALSE, "No data extracted from image", run,
                 GuardedCall(run.verification) \o GuardedCall(run.vision))
    ELSE Returns(TRUE, "none", run,
                 GuardedCall(run.verification) \o GuardedCall(run.vision)
                 \o FallbackCalls(run.fallback) \o ValidateCalls(run.validation)
                 \o SummaryCalls(run.rows))

\* extract after a cache miss: the VisionExtractionResult and the calls made
ExtractPipeline(run) ==
    IF run.load = "raises"
    THEN Returns(FALSE, "exception", run, <<>>)
    ELSE IF run.quality = "poor"
    THEN Returns(FALSE, "Image quality too poor", run, <<>>)
    ELSE IF run.verification = "not_medical"
    THEN Returns(FALSE, "Not a medical lab report", run, GuardedCall(run.verification))
    ELSE IF run.vision # "results"
    THEN Returns(FALSE, "No data extracted from image", run,
                 GuardedCall(run.verification) \o GuardedCall(run.vision))
    ELSE Returns(TRUE, "none", run,
                 GuardedCall(run.verification) \o GuardedCall(run.vision)
                 \o FallbackCalls(run.fallback) \o ValidateCalls(run.validation)
                 \o SummaryCalls(run.rows))

\* a cache hit: no stage runs
CacheHit == [NoExtraction EXCEPT !.called = TRUE, !.from_cache = TRUE, !.success = TRUE]

\* The entry that cache_result builds is a dict with the keys "result",
\* "cached_at" and "metadata". EntryGet is cached_result.get(key, {}); the
\* empty dict is the payload of shape "json" and id 0.
EmptyDict == [shape |-> "json", id |-> 0]
EntryGet(e, key) == IF key = "result" THEN e.result ELSE EmptyDict
\* the cache-hit branch of extract: cached_data = cached_result.get('data', {})
\* and the result built from it with .get defaults (success True, confidence
\* 0.9, no issues, no summary)
CachedData(e) == EntryGet(e, "data")

ExtractStart == extraction = NoExtraction

\* extract: the cache lookup, the pipeline, the write of a successful result
Extract(doc, run) ==
    /\ UNCHANGED <<rlVars, batchVars, normVars, panelVars, jobVars, identVars, qualityVars>>
    /\ Called
    /\ LET h == HashOf(doc)
           res == Lookup(h)
           looked == LookupRedis(res, h)
           result == ExtractPipeline(run)
       IN IF res.ret.present
          THEN /\ redisStore' = looked
               /\ stats' = LookupStats(stats, res)
               /\ lastCall' = Call("extract", h, doc, NoPayload, res,
                                   FALSE, "hit", 0)
               /\ extraction' = [CacheHit EXCEPT !.record = CachedData(res.ret)]
               /\ UNCHANGED diskStore
          ELSE IF result.success
          THEN /\ redisStore' = WriteRedis(looked, h, ExtractionPayload(doc))
               /\ diskStore' = WriteDisk(diskStore, h, ExtractionPayload(doc))
               /\ stats' = [LookupStats(stats, res) EXCEPT !.cache_writes = @ + 1]
               /\ lastCall' = Call("extract", h, doc, ExtractionPayload(doc),
                                   res, FALSE, "success", 1)
               /\ extraction' = [result EXCEPT !.record = ExtractionPayload(doc)]
          ELSE /\ redisStore' = looked
               /\ stats' = LookupStats(stats, res)
               /\ lastCall' = Call("extract", h, doc, NoPayload, res,
                                   FALSE, "failed", 0)
               /\ extraction' = result
               /\ UNCHANGED diskStore
    /\ UNCHANGED <<cacheConfig, redisUp, diskUp>>

(* ============ BatchProcessor and process_document_batch ================ *)

DocIds == 1..NumDocIds
Paths == 1..NumPaths

SeqsUpTo(S, n) == UNION {[1..k -> S] : k \in 0..n}

\* get_image_hash(path): the digest of the bytes stored under the path
\* (two paths may hold the same bytes)
PathHash(path) == ((path - 1) % NumHashes) + 1

\* final_result of the three passes: dicts, lists, strings and numbers
BatchPayload(path) == [shape |-> "json", id |-> PathHash(path)]

NoRow == [exists |-> FALSE, file_path |-> 0, status |-> "none"]
Rows == {NoRow} \cup [exists : {TRUE}, file_path : Paths, status : {"pending"}]

NoBatchResult ==
    [total |-> 0, successful |-> 0, failed |-> 0, cached |-> 0,
     results |-> <<>>, errors |-> <<>>]
NoResults ==
    [error |-> "none", total |-> 0, successful |-> 0, failed |-> 0, cached |-> 0]
NoTracker ==
    [exists |-> FALSE, total |-> 0, processed |-> 0, successful |-> 0,
     failed |-> 0, cached |-> 0, status |-> "none"]

Resolved == {"cached", "success", "failed"}

BatchStart ==
    /\ \/ /\ processor \in [entry : {"documents"}, has_acquire_async : {FALSE},
                            max_workers : {0}, api_key : BOOLEAN,
                            tracker_up : BOOLEAN]
          /\ documents \in [DocIds -> Rows]
          /\ document_ids \in SeqsUpTo(DocIds, MaxBatch)
          /\ image_paths = <<>>
       \/ /\ processor \in [entry : {"images"}, has_acquire_async : BOOLEAN,
                            max_workers : 1..MaxWorkers, api_key : {TRUE},
                            tracker_up : {FALSE}]
          /\ documents = [d \in DocIds |-> NoRow]
          /\ document_ids = <<>>
          /\ image_paths \in SeqsUpTo(Paths, MaxBatch)
    /\ tasks = <<>>
    /\ sub_batch = 0
    /\ batch_result = NoBatchResult
    /\ results = NoResults
    /\ tracker = NoTracker
    /\ phase = "idle"

\* the rows found for the submitted ids, in submission order
RECURSIVE FoundDocs(_)
FoundDocs(ids) ==
    IF ids = <<>> THEN <<>>
    ELSE (IF documents[Head(ids)].exists THEN <<Head(ids)>> ELSE <<>>)
         \o FoundDocs(Tail(ids))

\* asyncio.gather on the sub-batch that starts at index first
Gather(paths, first, workers) ==
    [i \in 1..Len(paths) |->
        IF i < first THEN tasks[i]
        ELSE IF i < first + workers THEN "scheduled"
        ELSE "waiting"]

FirstGatherAll(paths, workers) == [i \in 1..Len(paths) |-> "scheduled"]
FirstGather(paths, workers) ==
    [i \in 1..Len(paths) |-> IF i <= workers THEN "scheduled" ELSE "waiting"]

\* process_document_batch, up to the call of process_images_async, and the
\* start of process_images_async
ProcessDocumentBatch ==
    /\ phase = "idle"
    /\ processor.entry = "documents"
    /\ tracker' = IF processor.tracker_up
                  THEN [exists |-> TRUE, total |-> Len(document_ids),
                        processed |-> 0, successful |-> 0, failed |-> 0,
                        cached |-> 0, status |-> "processing"]
                  ELSE NoTracker
    /\ documents' = [d \in DocIds |->
                        IF documents[d].exists
                           /\ \E k \in 1..Len(document_ids) : document_ids[k] = d
                        THEN [documents[d] EXCEPT !.status = "processing"]
                        ELSE documents[d]]
    /\ LET docs == FoundDocs(document_ids)
           paths == [i \in 1..Len(docs) |-> documents[docs[i]].file_path]
           workers == Min(WorkerCap, Len(docs))
       IN IF docs = <<>>
          THEN /\ results' = [NoResults EXCEPT !.error = "No valid documents found"]
               /\ phase' = "returned"
               /\ UNCHANGED <<processor, image_paths, tasks, sub_batch, batch_result>>
          ELSE IF ~processor.api_key
          THEN /\ results' = [NoResults EXCEPT !.error = "Gemini API key not configured"]
               /\ phase' = "returned"
               /\ UNCHANGED <<processor, image_paths, tasks, sub_batch, batch_result>>
          ELSE /\ results' = [NoResults EXCEPT !.total = Len(document_ids)]
               /\ processor' = [processor EXCEPT !.max_workers = workers]
               /\ image_paths' = paths
               /\ batch_result' = [NoBatchResult EXCEPT !.total = Len(paths)]
               /\ tasks' = FirstGather(paths, workers)
               /\ sub_batch' = 1
               /\ phase' = "gather"
    /\ UNCHANGED <<document_ids, rlVars, cacheVars, restVars>>

\* process_images_async called on an injected BatchProcessor
ProcessImagesAsync ==
    /\ phase = "idle"
    /\ processor.entry = "images"
    /\ batch_result' = [NoBatchResult EXCEPT !.total = Len(image_paths)]
    /\ IF image_paths = <<>>
       THEN /\ phase' = "returned"
            /\ UNCHANGED <<tasks, sub_batch>>
       ELSE /\ tasks' = FirstGather(image_paths, processor.max_workers)
            /\ sub_batch' = 1
            /\ phase' = "gather"
    /\ UNCHANGED <<processor, documents, document_ids, image_paths, results,
                   tracker, rlVars, cacheVars, restVars>>

\* acquire_async of a limiter that has one: wait for a slot, record the time
AcquireAsync(t, reqs) ==
    LET cleaned == CleanOldRequests(reqs, t, config.window_seconds)
        t2 == t + WaitTime(cleaned, effective_rpm, t, config.window_seconds)
    IN  [now |-> t2,
         requests |-> Append(CleanOldRequests(cleaned, t2, config.window_seconds), t2)]

\* report_rate_limit_error as called from the except branch
ReportedError ==
    IF config.adaptive_backoff
    THEN /\ effective_rpm' = BackoffRpm(effective_rpm, config)
         /\ consecutive_successes' = 0
    ELSE UNCHANGED <<effective_rpm, consecutive_successes>>

\* report_success as called after pass 3
ReportedSuccess ==
    IF /\ consecutive_successes + 1 >= config.recovery_threshold
       /\ effective_rpm < config.requests_per_minute
    THEN /\ effective_rpm' = RecoverRpm(effective_rpm, config)
         /\ consecutive_successes' = 0
    ELSE /\ consecutive_successes' = Min(consecutive_successes + 1, MaxSuccesses)
         /\ UNCHANGED effective_rpm

rlGhosts == <<config, lock, wakeAt, lastOp, lastWaited, steady, nAcq, firstTs>>
batchFixed == <<processor, documents, document_ids, image_paths, sub_batch,
                batch_result, results, tracker, phase>>

\* _process_single_image up to its first suspension: the cache lookup, then
\* rate_limiter.acquire_async(); the limiter of rate_limiter.py has no such
\* method, the AttributeError is caught, and its text contains "rate"
ProcessSingleImage(i) ==
    /\ phase = "gather"
    /\ i \in DOMAIN tasks
    /\ tasks[i] = "scheduled"
    /\ LET h == PathHash(image_paths[i])
           res == Lookup(h)
       IN /\ stats' = LookupStats(stats, res)
          /\ redisStore' = LookupRedis(res, h)
          /\ IF res.ret.present
             THEN /\ tasks' = [tasks EXCEPT ![i] = "cached"]
                  /\ UNCHANGED <<now, requests, effective_rpm, consecutive_successes>>
             ELSE IF ~processor.has_acquire_async
             THEN /\ tasks' = [tasks EXCEPT ![i] = "failed"]
                  /\ ReportedError
                  /\ UNCHANGED <<now, requests>>
             ELSE /\ tasks' = [tasks EXCEPT ![i] = "vision"]
                  /\ now' = AcquireAsync(now, requests).now
                  /\ requests' = AcquireAsync(now, requests).requests
                  /\ UNCHANGED <<effective_rpm, consecutive_successes>>
    /\ UNCHANGED <<batchFixed, rlGhosts, cacheConfig, redisUp, diskUp,
                   diskStore, lastCall, nCalls, restVars>>

PassOutcomes == {"ok", "empty", "error", "rate_error", "structure_error"}

\* _process_single_image from the answer of pass 1 to its return
VisionReturns(i, outcome) ==
    /\ phase = "gather"
    /\ i \in DOMAIN tasks
    /\ tasks[i] = "vision"
    /\ LET path == image_paths[i]
           h == PathHash(path)
           acq == AcquireAsync(now, requests)
       IN CASE outcome = "ok" ->
                 /\ tasks' = [tasks EXCEPT ![i] = "success"]
                 /\ now' = acq.now
                 /\ requests' = acq.requests
                 /\ ReportedSuccess
                 /\ redisStore' = WriteRedis(redisStore, h, BatchPayload(path))
                 /\ diskStore' = WriteDisk(diskStore, h, BatchPayload(path))
                 /\ stats' = [stats EXCEPT !.cache_writes = @ + 1]
            [] outcome = "structure_error" ->
                 /\ tasks' = [tasks EXCEPT ![i] = "failed"]
                 /\ now' = acq.now
                 /\ requests' = acq.requests
                 /\ UNCHANGED <<effective_rpm, consecutive_successes,
                                redisStore, diskStore, stats>>
            [] outcome = "rate_error" ->
                 /\ tasks' = [tasks EXCEPT ![i] = "failed"]
                 /\ ReportedError
                 /\ UNCHANGED <<now, requests, redisStore, diskStore, stats>>
            [] outcome \in {"empty", "error"} ->
                 /\ tasks' = [tasks EXCEPT ![i] = "failed"]
                 /\ UNCHANGED <<now, requests, effective_rpm,
                                consecutive_successes, redisStore, diskStore,
                                stats>>
    /\ UNCHANGED <<batchFixed, rlGhosts, cacheConfig, redisUp, diskUp,
                   lastCall, nCalls, restVars>>

\* the loop over the gathered results of one sub-batch
RECURSIVE Collect(_, _, _)
Collect(br, i, last) ==
    IF i > last THEN br
    ELSE Collect(
            IF tasks[i] = "failed"
            THEN [br EXCEPT !.failed = @ + 1,
                            !.errors = Append(@, [image_path |-> image_paths[i]])]
            ELSE [br EXCEPT !.successful = @ + 1,
                            !.cached = IF tasks[i] = "cached" THEN @ + 1 ELSE @,
                            !.results = Append(@, [image_path |-> image_paths[i],
                                                   from_cache |-> tasks[i] = "cached"])],
            i + 1, last)

\* process_images_async: a sub-batch has resolved, its results are counted
\* and the next sub-batch is gathered (batch_delay is far below one tick),
\* or the BatchResult is returned
CollectSubBatch ==
    /\ phase = "gather"
    /\ LET last == Min(sub_batch + processor.max_workers - 1, Len(image_paths))
       IN /\ \A i \in sub_batch..last : tasks[i] \in Resolved
          /\ batch_result' = Collect(batch_result, sub_batch, last)
          /\ IF last < Len(image_paths)
             THEN /\ sub_batch' = last + 1
                  /\ tasks' = Gather(image_paths, last + 1, processor.max_workers)
                  /\ UNCHANGED phase
             ELSE /\ phase' = IF processor.entry = "images"
                              THEN "returned" ELSE "collected"
                  /\ UNCHANGED <<sub_batch, tasks>>
    /\ UNCHANGED <<processor, documents, document_ids, image_paths, results,
                   tracker, rlVars, cacheVars, restVars>>

\* path_to_doc = {doc.file_path: doc for doc in docs}: the last doc wins
PathToDoc(path) ==
    LET docs == FoundDocs(document_ids)
        at == {k \in 1..Len(docs) : documents[docs[k]].file_path = path}
    IN  docs[CHOOSE k \in at : \A j \in at : j <= k]

Range(seq) == {seq[k] : k \in 1..Len(seq)}

\* process_document_batch after process_images_async has returned
ProcessDocumentBatchFinish ==
    /\ phase = "collected"
    /\ LET ok == {PathToDoc(r.image_path) : r \in Range(batch_result.results)}
           bad == {PathToDoc(e.image_path) : e \in Range(batch_result.errors)}
       IN documents' = [d \in DocIds |->
                           IF d \in bad
                           THEN [documents[d] EXCEPT !.status = "failed"]
                           ELSE IF d \in ok
                           THEN [documents[d] EXCEPT !.status = "completed"]
                           ELSE documents[d]]
    /\ results' = [results EXCEPT
                      !.successful = Len(batch_result.results),
                      !.cached = Cardinality({k \in 1..Len(batch_result.results) :
                                                 batch_result.results[k].from_cache}),
                      !.failed = Len(batch_result.errors)]
    /\ tracker' = IF tracker.exists
                  THEN [tracker EXCEPT
                           !.processed = @ + results.total,
                           !.successful = @ + results'.successful,
                           !.failed = @ + results'.failed,
                           !.cached = @ + results'.cached,
                           !.status = "completed"]
                  ELSE tracker
    /\ phase' = "returned"
    /\ UNCHANGED <<processor, document_ids, image_paths, tasks, sub_batch,
                   batch_result, rlVars, cacheVars, restVars>>

(* ========================= StrictNormalizer ============================ *)

\* Text is a sequence of characters. The range and value texts of the model
\* are written with digits, "-", "<", ">", blanks and letters; on such text
\* the pattern [-+]?\d*\.?\d+ of the source matches exactly -?\d+.
DigitChars == <<"0", "1", "2", "3", "4", "5", "6", "7", "8", "9">>
UpperChars == <<"A", "B", "C", "D", "E", "F", "G", "H", "I", "J", "K", "L", "M",
                "N", "O", "P", "Q", "R", "S", "T", "U", "V", "W", "X", "Y", "Z">>
LowerChars == <<"a", "b", "c", "d", "e", "f", "g", "h", "i", "j", "k", "l", "m",
                "n", "o", "p", "q", "r", "s", "t", "u", "v", "w", "x", "y", "z">>

IsDigit(c) == \E d \in 1..Len(DigitChars) : DigitChars[d] = c
DigitValue(c) == (CHOOSE d \in 1..Len(DigitChars) : DigitChars[d] = c) - 1

\* str.lower and str.upper, character by character
LowerChar(c) ==
    IF \E i \in 1..Len(UpperChars) : UpperChars[i] = c
    THEN LowerChars[CHOOSE i \in 1..Len(UpperChars) : UpperChars[i] = c]
    ELSE c
UpperChar(c) ==
    IF \E i \in 1..Len(LowerChars) : LowerChars[i] = c
    THEN UpperChars[CHOOSE i \in 1..Len(LowerChars) : LowerChars[i] = c]
    ELSE c
Lower(text) == [i \in 1..Len(text) |-> LowerChar(text[i])]
Upper(text) == [i \in 1..Len(text) |-> UpperChar(text[i])]

\* str.strip
RECURSIVE LStrip(_)
LStrip(text) ==
    IF text # <<>> /\ Head(text) = " " THEN LStrip(Tail(text)) ELSE text
RECURSIVE RStrip(_)
RStrip(text) ==
    IF text # <<>> /\ text[Len(text)] = " "
    THEN RStrip(SubSeq(text, 1, Len(text) - 1))
    ELSE text
Strip(text) == RStrip(LStrip(text))

\* `pat in text`, text.endswith(suffix)
Contains(text, pat) ==
    \E i \in 0..(Len(text) - Len(pat)) : SubSeq(text, i + 1, i + Len(pat)) = pat
EndsWith(text, suffix) ==
    /\ Len(suffix) <= Len(text)
    /\ SubSeq(text, Len(text) - Len(suffix) + 1, Len(text)) = suffix

\* Optional[float]
NoNum == [some |-> FALSE, v |-> 0]
Some(n) == [some |-> TRUE, v |-> n]

\* the decimal text of a natural number
RECURSIVE NatText(_)
NatText(n) ==
    IF n < 10 THEN <<DigitChars[n + 1]>>
    ELSE NatText(n \div 10) \o <<DigitChars[(n % 10) + 1]>>

\* float() of a run of digits text[i..j]
RECURSIVE RunValue(_, _, _)
RunValue(text, i, j) ==
    IF j < i THEN 0
    ELSE 10 * RunValue(text, i, j - 1) + DigitValue(text[j])

\* the last index of the run of digits that starts at i
RECURSIVE RunEnd(_, _)
RunEnd(text, i) ==
    IF i < Len(text) /\ IsDigit(text[i + 1]) THEN RunEnd(text, i + 1) ELSE i

\* re.findall(r'[-+]?\d*\.?\d+', text), as numbers, from index i on
RECURSIVE FindNumbers(_, _)
FindNumbers(text, i) ==
    IF i > Len(text) THEN <<>>
    ELSE IF IsDigit(text[i])
    THEN <<RunValue(text, i, RunEnd(text, i))>>
         \o FindNumbers(text, RunEnd(text, i) + 1)
    ELSE IF text[i] = "-" /\ i < Len(text) /\ IsDigit(text[i + 1])
    THEN <<0 - RunValue(text, i + 1, RunEnd(text, i + 1))>>
         \o FindNumbers(text, RunEnd(text, i + 1) + 1)
    ELSE FindNumbers(text, i + 1)

\* _parse_reference_range
ParseReferenceRange(ref) ==
    LET matches == FindNumbers(ref, 1)
    IN  IF ref = <<>> THEN [low |-> NoNum, high |-> NoNum]
        ELSE IF Len(matches) >= 2
        THEN [low |-> Some(matches[1]), high |-> Some(matches[2])]
        ELSE IF Len(matches) = 1
        THEN IF Contains(ref, <<"<">>) THEN [low |-> NoNum, high |-> Some(matches[1])]
             ELSE IF Contains(ref, <<">">>) THEN [low |-> Some(matches[1]), high |-> NoNum]
             ELSE [low |-> NoNum, high |-> NoNum]
        ELSE [low |-> NoNum, high |-> NoNum]

\* _parse_value: a trailing H, L, h, l or * is dropped, the first number taken
ParseValue(raw_value) ==
    LET stripped == Strip(raw_value)
        cleaned == IF stripped # <<>>
                      /\ stripped[Len(stripped)] \in {"H", "L", "h", "l", "*"}
                   THEN Strip(SubSeq(stripped, 1, Len(stripped) - 1))
                   ELSE stripped
        matches == FindNumbers(cleaned, 1)
    IN  IF raw_value = <<>> THEN [value |-> <<>>, numeric |-> NoNum]
        ELSE [value |-> cleaned,
              numeric |-> IF matches = <<>> THEN NoNum ELSE Some(matches[1])]

\* _normalize_flag
NormalizeFlag(flag_raw, value_raw) ==
    LET flag == Strip(Upper(flag_raw))
    IN  IF flag_raw = <<>>
        THEN IF value_raw # <<>> /\ EndsWith(Upper(value_raw), <<"H">>) THEN <<"H">>
             ELSE IF value_raw # <<>> /\ EndsWith(Upper(value_raw), <<"L">>) THEN <<"L">>
             ELSE <<>>
        ELSE IF flag \in {<<"H">>, <<"H", "I", "G", "H">>} THEN <<"H">>
        ELSE IF flag \in {<<"L">>, <<"L", "O", "W">>} THEN <<"L">>
        ELSE IF flag \in {<<"N">>, <<"N", "O", "R", "M", "A", "L">>} THEN <<"N">>
        ELSE SubSeq(flag, 1, Min(1, Len(flag)))

\* skip_patterns of _is_non_test_text
SkipPatterns ==
    {<<"h", "o", "s", "p", "i", "t", "a", "l">>,
     <<"l", "a", "b", "o", "r", "a", "t", "o", "r", "y">>,
     <<"r", "e", "p", "o", "r", "t">>,
     <<"d", "a", "t", "e">>,
     <<"t", "i", "m", "e">>,
     <<"s", "a", "m", "p", "l", "e">>,
     <<"p", "a", "t", "i", "e", "n", "t">>,
     <<"d", "o", "c", "t", "o", "r">>,
     <<"m", "e", "t", "h", "o", "d">>,
     <<"i", "n", "s", "t", "r", "u", "m", "e", "n", "t">>,
     <<"n", "o", "r", "m", "a", "l", " ", "r", "a", "n", "g", "e">>,
     <<"r", "e", "f", "e", "r", "e", "n", "c", "e">>,
     <<"i", "n", "v", "e", "s", "t", "i", "g", "a", "t", "i", "o", "n">>,
     <<"p", "a", "r", "a", "m", "e", "t", "e", "r">>,
     <<"r", "e", "s", "u", "l", "t">>,
     <<"p", "r", "i", "n", "t", "e", "d">>,
     <<"p", "a", "g", "e">>,
     <<"t", "e", "s", "t", " ", "n", "a", "m", "e">>,
     <<"l", "a", "b", " ", "n", "o">>,
     <<"u", "h", "i", "d">>}


\* _is_non_test_text
IsNonTestText(text) ==
    \/ \E pattern \in SkipPatterns : Contains(Lower(text), pattern)
    \/ Len(text) < 2

\* the panels of PANEL_KEYWORDS, in dict order
PanelOrder == <<"cbc", "differential", "abg", "electrolytes", "liver", "kidney", "lipid", "thyroid", "diabetes">>


\* PANEL_KEYWORDS
PanelKeywords ==
    [cbc |->
        {<<"h", "e", "m", "o", "g", "l", "o", "b", "i", "n">>,
         <<"h", "b">>,
         <<"r", "b", "c">>,
         <<"w", "b", "c">>,
         <<"p", "l", "a", "t", "e", "l", "e", "t">>,
         <<"p", "l", "t">>,
         <<"p", "c", "v">>,
         <<"h", "c", "t">>,
         <<"m", "c", "v">>,
         <<"m", "c", "h">>,
         <<"m", "c", "h", "c">>,
         <<"r", "d", "w">>,
         <<"h", "a", "e", "m", "o", "g", "l", "o", "b", "i", "n">>},
     differential |->
        {<<"n", "e", "u", "t", "r", "o", "p", "h", "i", "l">>,
         <<"l", "y", "m", "p", "h", "o", "c", "y", "t", "e">>,
         <<"m", "o", "n", "o", "c", "y", "t", "e">>,
         <<"e", "o", "s", "i", "n", "o", "p", "h", "i", "l">>,
         <<"b", "a", "s", "o", "p", "h", "i", "l">>,
         <<"n", "e", "u", "t">>,
         <<"l", "y", "m", "p", "h">>,
         <<"m", "o", "n", "o">>,
         <<"e", "o", "s">>,
         <<"b", "a", "s", "o">>,
         <<"d", "i", "f", "f", "e", "r", "e", "n", "t", "i", "a", "l">>},
     abg |->
        {<<"p", "c", "o", "2">>,
         <<"p", "o", "2">>,
         <<"h", "c", "o", "3">>,
         <<"b", "a", "s", "e", " ", "e", "x", "c", "e", "s", "s">>,
         <<"s", "a", "o", "2">>,
         <<"b", "l", "o", "o", "d", " ", "g", "a", "s">>,
         <<"a", "b", "g">>},
     electrolytes |->
        {<<"s", "o", "d", "i", "u", "m">>,
         <<"p", "o", "t", "a", "s", "s", "i", "u", "m">>,
         <<"c", "h", "l", "o", "r", "i", "d", "e">>,
         <<"c", "a", "l", "c", "i", "u", "m">>,
         <<"m", "a", "g", "n", "e", "s", "i", "u", "m">>,
         <<"n", "a", "+">>,
         <<"k", "+">>,
         <<"c", "l", "-">>},
     liver |->
        {<<"a", "l", "t">>,
         <<"a", "s", "t">>,
         <<"s", "g", "p", "t">>,
         <<"s", "g", "o", "t">>,
         <<"b", "i", "l", "i", "r", "u", "b", "i", "n">>,
         <<"a", "l", "p">>,
         <<"g", "g", "t">>,
         <<"a", "l", "b", "u", "m", "i", "n">>},
     kidney |->
        {<<"c", "r", "e", "a", "t", "i", "n", "i", "n", "e">>,
         <<"u", "r", "e", "a">>,
         <<"b", "u", "n">>,
         <<"e", "g", "f", "r">>,
         <<"u", "r", "i", "c", " ", "a", "c", "i", "d">>},
     lipid |->
        {<<"c", "h", "o", "l", "e", "s", "t", "e", "r", "o", "l">>,
         <<"t", "r", "i", "g", "l", "y", "c", "e", "r", "i", "d", "e">>,
         <<"h", "d", "l">>,
         <<"l", "d", "l">>,
         <<"v", "l", "d", "l">>},
     thyroid |->
        {<<"t", "s", "h">>,
         <<"t", "3">>,
         <<"t", "4">>,
         <<"t", "h", "y", "r", "o", "i", "d">>},
     diabetes |->
        {<<"g", "l", "u", "c", "o", "s", "e">>,
         <<"h", "b", "a", "1", "c">>,
         <<"s", "u", "g", "a", "r">>,
         <<"f", "a", "s", "t", "i", "n", "g">>,
         <<"r", "a", "n", "d", "o", "m">>}]


\* PANEL_DEFINITIONS
PanelDefinitions ==
    [cbc |->
        {<<"h", "e", "m", "o", "g", "l", "o", "b", "i", "n">>,
         <<"r", "e", "d", "_", "b", "l", "o", "o", "d", "_", "c", "e", "l", "l", "s">>,
         <<"w", "h", "i", "t", "e", "_", "b", "l", "o", "o", "d", "_", "c", "e", "l", "l", "s">>,
         <<"p", "l", "a", "t", "e", "l", "e", "t", "s">>,
         <<"h", "e", "m", "a", "t", "o", "c", "r", "i", "t">>,
         <<"m", "c", "v">>,
         <<"m", "c", "h">>,
         <<"m", "c", "h", "c">>,
         <<"r", "d", "w">>,
         <<"m", "p", "v">>},
     differential |->
        {<<"n", "e", "u", "t", "r", "o", "p", "h", "i", "l", "s">>,
         <<"l", "y", "m", "p", "h", "o", "c", "y", "t", "e", "s">>,
         <<"m", "o", "n", "o", "c", "y", "t", "e", "s">>,
         <<"e", "o", "s", "i", "n", "o", "p", "h", "i", "l", "s">>,
         <<"b", "a", "s", "o", "p", "h", "i", "l", "s">>,
         <<"e", "s", "r">>},
     abg |->
        {<<"p", "h">>,
         <<"p", "c", "o", "2">>,
         <<"p", "o", "2">>,
         <<"h", "c", "o", "3", "_", "a", "b", "g">>,
         <<"b", "a", "s", "e", "_", "e", "x", "c", "e", "s", "s">>,
         <<"o", "x", "y", "g", "e", "n", "_", "s", "a", "t", "u", "r", "a", "t", "i", "o", "n">>,
         <<"l", "a", "c", "t", "a", "t", "e">>,
         <<"i", "o", "n", "i", "z", "e", "d", "_", "c", "a", "l", "c", "i", "u", "m">>},
     electrolytes |->
        {<<"s", "o", "d", "i", "u", "m">>,
         <<"p", "o", "t", "a", "s", "s", "i", "u", "m">>,
         <<"c", "h", "l", "o", "r", "i", "d", "e">>,
         <<"b", "i", "c", "a", "r", "b", "o", "n", "a", "t", "e">>,
         <<"c", "a", "l", "c", "i", "u", "m">>,
         <<"p", "h", "o", "s", "p", "h", "o", "r", "u", "s">>,
         <<"m", "a", "g", "n", "e", "s", "i", "u", "m">>},
     liver |->
        {<<"a", "l", "t">>,
         <<"a", "s", "t">>,
         <<"a", "l", "p">>,
         <<"g", "g", "t">>,
         <<"t", "o", "t", "a", "l", "_", "b", "i", "l", "i", "r", "u", "b", "i", "n">>,
         <<"d", "i", "r", "e", "c", "t", "_", "b", "i", "l", "i", "r", "u", "b", "i", "n">>,
         <<"i", "n", "d", "i", "r", "e", "c", "t", "_", "b", "i", "l", "i", "r", "u", "b", "i", "n">>,
         <<"t", "o", "t", "a", "l", "_", "p", "r", "o", "t", "e", "i", "n">>,
         <<"a", "l", "b", "u", "m", "i", "n">>,
         <<"g", "l", "o", "b", "u", "l", "i", "n">>,
         <<"a", "g", "_", "r", "a", "t", "i", "o">>},
     kidney |->
        {<<"c", "r", "e", "a", "t", "i", "n", "i", "n", "e">>,
         <<"b", "l", "o", "o", "d", "_", "u", "r", "e", "a", "_", "n", "i", "t", "r", "o", "g", "e", "n">>,
         <<"u", "r", "i", "c", "_", "a", "c", "i", "d">>,
         <<"e", "g", "f", "r">>},
     lipid |->
        {<<"t", "o", "t", "a", "l", "_", "c", "h", "o", "l", "e", "s", "t", "e", "r", "o", "l">>,
         <<"l", "d", "l", "_", "c", "h", "o", "l", "e", "s", "t", "e", "r", "o", "l">>,
         <<"h", "d", "l", "_", "c", "h", "o", "l", "e", "s", "t", "e", "r", "o", "l">>,
         <<"t", "r", "i", "g", "l", "y", "c", "e", "r", "i", "d", "e", "s">>,
         <<"v", "l", "d", "l">>},
     thyroid |->
        {<<"t", "s", "h">>,
         <<"f", "r", "e", "e", "_", "t", "3">>,
         <<"f", "r", "e", "e", "_", "t", "4">>,
         <<"t", "o", "t", "a", "l", "_", "t", "3">>,
         <<"t", "o", "t", "a", "l", "_", "t", "4">>},
     diabetes |->
        {<<"f", "a", "s", "t", "i", "n", "g", "_", "g", "l", "u", "c", "o", "s", "e">>,
         <<"r", "a", "n", "d", "o", "m", "_", "g", "l", "u", "c", "o", "s", "e">>,
         <<"p", "o", "s", "t", "p", "r", "a", "n", "d", "i", "a", "l", "_", "g", "l", "u", "c", "o", "s", "e">>,
         <<"h", "b", "a", "1", "c">>}]

\* entries of a vocabulary file: key -> canonical_name, aliases, unit

HemoglobinEntry ==
    [key |-> <<"h", "e", "m", "o", "g", "l", "o", "b", "i", "n">>,
      canonical_name |-> <<"H", "e", "m", "o", "g", "l", "o", "b", "i", "n">>,
      aliases |-> <<<<"h", "b">>, <<"h", "g", "b">>, <<"h", "a", "e", "m", "o", "g", "l", "o", "b", "i", "n">>>>,
      unit |-> "g/dL"]
WhiteBloodCellsEntry ==
    [key |-> <<"w", "h", "i", "t", "e", "_", "b", "l", "o", "o", "d", "_", "c", "e", "l", "l", "s">>,
      canonical_name |-> <<"W", "h", "i", "t", "e", " ", "B", "l", "o", "o", "d", " ", "C", "e", "l", "l", " ", "C", "o", "u", "n", "t">>,
      aliases |-> <<<<"w", "b", "c">>, <<"w", "b", "c", " ", "c", "o", "u", "n", "t">>, <<"l", "e", "u", "k", "o", "c", "y", "t", "e", "s">>>>,
      unit |-> "/uL"]
RedBloodCellsEntry ==
    [key |-> <<"r", "e", "d", "_", "b", "l", "o", "o", "d", "_", "c", "e", "l", "l", "s">>,
      canonical_name |-> <<"R", "e", "d", " ", "B", "l", "o", "o", "d", " ", "C", "e", "l", "l", " ", "C", "o", "u", "n", "t">>,
      aliases |-> <<<<"r", "b", "c">>, <<"r", "b", "c", " ", "c", "o", "u", "n", "t">>, <<"e", "r", "y", "t", "h", "r", "o", "c", "y", "t", "e", "s">>>>,
      unit |-> "million/uL"]
RdwEntry ==
    [key |-> <<"r", "d", "w">>,
      canonical_name |-> <<"R", "e", "d", " ", "C", "e", "l", "l", " ", "D", "i", "s", "t", "r", "i", "b", "u", "t", "i", "o", "n", " ", "W", "i", "d", "t", "h">>,
      aliases |-> <<<<"r", "d", "w">>, <<"r", "d", "w", "-", "c", "v">>>>,
      unit |-> "%"]
CreatinineEntry ==
    [key |-> <<"c", "r", "e", "a", "t", "i", "n", "i", "n", "e">>,
      canonical_name |-> <<"C", "r", "e", "a", "t", "i", "n", "i", "n", "e">>,
      aliases |-> <<<<"c", "r", "e", "a", "t", "i", "n", "i", "n", "e">>, <<"c", "r", "e", "a", "t">>>>,
      unit |-> "mg/dL"]
HbA1cEntry ==
    [key |-> <<"h", "b", "a", "1", "c">>,
      canonical_name |-> <<"H", "b", "A", "1", "c">>,
      aliases |-> <<<<"a", "1", "c">>>>,
      unit |-> "%"]
RbcCountEntry ==
    [key |-> <<"r", "b", "c", "_", "c", "o", "u", "n", "t">>,
      canonical_name |-> <<"R", "e", "d", " ", "B", "l", "o", "o", "d", " ", "C", "e", "l", "l", " ", "C", "o", "u", "n", "t">>,
      aliases |-> <<<<"r", "b", "c">>>>,
      unit |-> "million/uL"]

\* the vocabularies a normalizer is built on: the one of the test fixture,
\* the same with the HbA1c entry that PANEL_DEFINITIONS lists for the
\* diabetes panel, and a two-entry file that stores Red Blood Cell Count
\* under another key than PANEL_DEFINITIONS uses
FixtureVocabulary ==
    <<HemoglobinEntry, WhiteBloodCellsEntry, RedBloodCellsEntry, RdwEntry,
      CreatinineEntry>>
Vocabularies ==
    {FixtureVocabulary,
     FixtureVocabulary \o <<HbA1cEntry>>,
     <<RbcCountEntry, RdwEntry>>}

NoKey == <<>>
KeysOf(vocab) == {vocab[i].key : i \in 1..Len(vocab)}
MappingOf(vocab, key) == vocab[CHOOSE i \in 1..Len(vocab) : vocab[i].key = key]

\* _build_whitelist: the assignments made, in order
EntryPairs(e) ==
    <<[alias |-> Lower(e.key), key |-> e.key],
      [alias |-> Lower(e.canonical_name), key |-> e.key]>>
    \o [i \in 1..Len(e.aliases) |-> [alias |-> Lower(e.aliases[i]), key |-> e.key]]
RECURSIVE WhitelistPairs(_)
WhitelistPairs(vocab) ==
    IF vocab = <<>> THEN <<>>
    ELSE EntryPairs(Head(vocab)) \o WhitelistPairs(Tail(vocab))

\* self.whitelist[name]: the last assignment wins; `name in self.whitelist`
InWhitelist(vocab, name) ==
    LET pairs == WhitelistPairs(vocab)
    IN  \E i \in 1..Len(pairs) : pairs[i].alias = name
WhitelistGet(vocab, name) ==
    LET pairs == WhitelistPairs(vocab)
        at == {i \in 1..Len(pairs) : pairs[i].alias = name}
    IN  pairs[CHOOSE i \in at : \A j \in at : j <= i].key

\* self.whitelist.items(): each alias once, in order of first insertion
RECURSIVE FirstOccurrences(_, _)
FirstOccurrences(pairs, seen) ==
    IF pairs = <<>> THEN <<>>
    ELSE IF Head(pairs).alias \in seen THEN FirstOccurrences(Tail(pairs), seen)
    ELSE <<Head(pairs).alias>>
         \o FirstOccurrences(Tail(pairs), seen \cup {Head(pairs).alias})
WhitelistItems(vocab) ==
    LET pairs == WhitelistPairs(vocab)
        names == FirstOccurrences(pairs, {})
        Last(name) == CHOOSE i \in 1..Len(pairs) :
                          /\ pairs[i].alias = name
                          /\ \A j \in (i + 1)..Len(pairs) : pairs[j].alias # name
    IN  [i \in 1..Len(names) |-> [alias |-> names[i], key |-> pairs[Last(names[i])].key]]

\* _detect_panel: the first panel one of whose keywords is contained
DetectPanel(raw_name) ==
    LET hits == {k \in 1..Len(PanelOrder) :
                    \E keyword \in PanelKeywords[PanelOrder[k]] :
                        Contains(Lower(raw_name), keyword)}
    IN  IF hits = {} THEN "none"
        ELSE PanelOrder[CHOOSE k \in hits : \A j \in hits : k <= j]

\* self.panel_whitelists[panel]
PanelWhitelist(vocab, panel) == PanelDefinitions[panel] \cap KeysOf(vocab)

\* the three re.sub calls on the lower-cased name: a trailing %, $ or #,
\* a trailing " count", a trailing " (...)"
DropSymbol(text) ==
    IF text # <<>> /\ text[Len(text)] \in {"%", "$", "#"}
    THEN RStrip(SubSeq(text, 1, Len(text) - 1))
    ELSE text
DropCount(text) ==
    IF EndsWith(text, <<" ", "c", "o", "u", "n", "t">>)
    THEN RStrip(SubSeq(text, 1, Len(text) - 5))
    ELSE text
DropParenthesis(text) ==
    LET starts == {i \in 1..Len(text) :
                      /\ text[i] = "("
                      /\ i > 1
                      /\ text[i - 1] = " "}
        first == CHOOSE i \in starts : \A j \in starts : i <= j
    IN  IF text # <<>> /\ text[Len(text)] = ")" /\ starts # {}
           /\ first < Len(text)
        THEN RStrip(SubSeq(text, 1, first - 1))
        ELSE text
CleanSuffixes(normalized) == DropParenthesis(DropCount(DropSymbol(normalized)))

\* _levenshtein: one row of the table from the previous one; each row is
\* complete (Len(previous_row) = Len(s2) + 1) before the next one is begun
RECURSIVE LevRow(_, _, _, _)
LevRow(previous_row, c1, s2, current_row) ==
    LET j == Len(current_row)
    IN  IF j > Len(s2) THEN current_row
        ELSE LevRow(previous_row, c1, s2,
                Append(current_row,
                       Min(Min(previous_row[j + 1] + 1, current_row[j] + 1),
                           previous_row[j] + (IF c1 # s2[j] THEN 1 ELSE 0))))
RECURSIVE LevRows(_, _, _, _)
LevRows(s1, s2, i, previous_row) ==
    IF i > Len(s1) \/ Len(previous_row) # Len(s2) + 1
    THEN previous_row[Len(previous_row)]
    ELSE LevRows(s1, s2, i + 1, LevRow(previous_row, s1[i], s2, <<i>>))
Levenshtein(a, b) ==
    LET s1 == IF Len(a) < Len(b) THEN b ELSE a
        s2 == IF Len(a) < Len(b) THEN a ELSE b
    IN  IF Len(s2) = 0 THEN Len(s1)
        ELSE LevRows(s1, s2, 1, [j \in 1..(Len(s2) + 1) |-> j - 1])

\* the closest alias of step 3: the first one at the least distance
RECURSIVE BestMatch(_, _, _, _)
BestMatch(items, allowed_keys, clean, best) ==
    IF items = <<>> THEN best
    ELSE LET item == Head(items)
             dist == Levenshtein(clean, item.alias)
         IN  IF /\ ~(allowed_keys # {} /\ item.key \notin allowed_keys)
                /\ Len(item.alias) >= 3
                /\ dist < best.score
             THEN BestMatch(Tail(items), allowed_keys, clean,
                            [key |-> item.key, score |-> dist])
             ELSE BestMatch(Tail(items), allowed_keys, clean, best)

\* _llm_panel_match: the model's answer counts only if it names a key of
\* the panel's whitelist
LlmPanelMatch(vocab, panel, answer) ==
    IF answer \in PanelWhitelist(vocab, panel) THEN answer ELSE NoKey

\* _map_test_name
MapTestName(vocab, raw_name, detected_panel, answer) ==
    LET normalized == Strip(Lower(raw_name))
        normalized_clean == CleanSuffixes(normalized)
        scoped == detected_panel # "none"
        allowed_keys == IF scoped THEN PanelWhitelist(vocab, detected_panel) ELSE {}
        Allowed(key) == ~scoped \/ key \in allowed_keys
        Keep(key) == ~(allowed_keys # {} /\ key \notin allowed_keys)
        items == WhitelistItems(vocab)
        direct == {i \in 1..Len(items) :
                      /\ Keep(items[i].key)
                      /\ items[i].alias \in {normalized, normalized_clean}}
        best == BestMatch(items, allowed_keys, normalized_clean, [key |-> NoKey, score |-> 999])
        max_dist == IF Len(normalized_clean) < 6 THEN 2 ELSE 3
        llm_pick == LlmPanelMatch(vocab, detected_panel, answer)
    IN  IF InWhitelist(vocab, normalized) /\ Allowed(WhitelistGet(vocab, normalized))
        THEN [key |-> WhitelistGet(vocab, normalized), method |-> "exact"]
        ELSE IF /\ InWhitelist(vocab, normalized_clean)
                /\ Allowed(WhitelistGet(vocab, normalized_clean))
        THEN [key |-> WhitelistGet(vocab, normalized_clean), method |-> "exact"]
        ELSE IF direct # {}
        THEN [key |-> items[CHOOSE i \in direct : \A j \in direct : i <= j].key,
              method |-> "alias"]
        ELSE IF best.key # NoKey /\ best.score <= max_dist
        THEN [key |-> best.key, method |-> "fuzzy"]
        ELSE IF scoped /\ llm_pick # NoKey
        THEN [key |-> llm_pick, method |-> "llm"]
        ELSE [key |-> NoKey, method |-> "unknown"]

UnknownName == <<"U", "N", "K", "N", "O", "W", "N">>

\* normalize: what one row contributes: nothing (skipped), or one result
NormalizeRow(vocab, row, answer) ==
    LET test_raw == Strip(row.test_name)
        mapped == MapTestName(vocab, test_raw, DetectPanel(test_raw), answer)
        parsed == ParseValue(row.value)
        ref == ParseReferenceRange(row.reference_range)
        flag == NormalizeFlag(row.flag, row.value)
        outside == /\ parsed.numeric.some /\ ref.low.some /\ ref.high.some
                   /\ \/ parsed.numeric.v < ref.low.v
                      \/ parsed.numeric.v > ref.high.v
        common == [original_name |-> test_raw, value |-> parsed.value,
                   value_numeric |-> parsed.numeric,
                   reference_range |-> row.reference_range,
                   ref_low |-> ref.low, ref_high |-> ref.high, flag |-> flag]
    IN  IF test_raw = <<>> \/ IsNonTestText(test_raw) THEN <<>>
        ELSE IF mapped.key = NoKey
        THEN <<[f \in DOMAIN common \cup
                      {"test_name", "unit", "needs_review", "review_reason",
                       "mapping_method"} |->
                  CASE f = "test_name" -> UnknownName
                    [] f = "unit" -> row.unit
                    [] f = "needs_review" -> TRUE
                    [] f = "review_reason" -> "Unmapped"
                    [] f = "mapping_method" -> "unknown"
                    [] OTHER -> common[f]]>>
        ELSE <<[f \in DOMAIN common \cup
                      {"test_name", "unit", "needs_review", "review_reason",
                       "mapping_method"} |->
                  CASE f = "test_name" -> MappingOf(vocab, mapped.key).canonical_name
                    [] f = "unit" -> IF row.unit # "" THEN row.unit
                                     ELSE MappingOf(vocab, mapped.key).unit
                    [] f = "needs_review" ->
                          mapped.method \in {"llm", "fuzzy"} \/ outside
                    [] f = "review_reason" ->
                          IF mapped.method = "llm" THEN "Mapped via LLM"
                          ELSE IF mapped.method = "fuzzy" THEN "Fuzzy match - verify"
                          ELSE IF outside THEN "Value outside reference range"
                          ELSE ""
                    [] f = "mapping_method" -> mapped.method
                    [] OTHER -> common[f]]>>

RECURSIVE NormalizeRows(_, _, _)
NormalizeRows(vocab, rows, answer) ==
    IF rows = <<>> THEN <<>>
    ELSE NormalizeRow(vocab, Head(rows), answer)
         \o NormalizeRows(vocab, Tail(rows), answer)

\* names of the rows that came out unmapped, in order
RECURSIVE UnknownTests(_)
UnknownTests(rs) ==
    IF rs = <<>> THEN <<>>
    ELSE (IF Head(rs).mapping_method = "unknown"
          THEN <<Head(rs).original_name>> ELSE <<>>)
         \o UnknownTests(Tail(rs))

NotNormalized ==
    [called |-> FALSE, success |-> FALSE, results |-> <<>>, unknown_tests |-> <<>>]

\* raw test names met in reports
RawNames ==
    {<<"R", "B", "C">>,
     <<"R", "b", "c">>,
     <<"R", "D", "W">>,
     <<"H", "b">>,
     <<"H", "G", "B">>,
     <<"H", "b", "A", "1", "c">>,
     <<"C", "r", "e", "a", "t", "i", "n", "i", "n", "e">>,
     <<"P", "r", "o", "t", "h", "r", "o", "m", "b", "i", "n", " ", "T", "i", "m", "e">>,
     <<"K">>,
     <<"X", "y", "z">>,
     <<"H", "g", "b", "b">>,
     <<"H", "b", " ", "l", "e", "v", "e", "l">>,
     <<"R", "B", "C", " ", "c", "o", "u", "n", "t">>,
     <<>>}

\* numbers written in the value and range columns
RangeBounds == {0, 5, 10}
ValueNumbers == {3, 7, 12}

\* range texts: "a-b", "a - b", "<x", ">x"
RangeText(a, b, spaced) ==
    NatText(a) \o (IF spaced THEN <<" ", "-", " ">> ELSE <<"-">>) \o NatText(b)
OneSidedText(sign, x) == <<sign>> \o NatText(x)
RangeTexts ==
    {<<>>}
    \cup {RangeText(a, b, sp) : a \in RangeBounds, b \in RangeBounds, sp \in BOOLEAN}
    \cup {OneSidedText(sg, x) : sg \in {"<", ">"}, x \in RangeBounds}

\* rows as the vision extraction returns them
NameRows ==
    [test_name : RawNames, value : {NatText(7)}, unit : {""},
     reference_range : {<<>>}, flag : {<<>>}]
RangeRows ==
    [test_name : {<<"H", "b">>},
     value : {NatText(v) : v \in ValueNumbers}, unit : {""},
     reference_range : RangeTexts, flag : {<<>>}]
\* reports of several rows: a mapped name, a coagulation test, an unknown one
ReportRows ==
    {r \in NameRows :
        r.test_name \in {<<"R", "B", "C">>,
                         <<"P", "r", "o", "t", "h", "r", "o", "m", "b", "i", "n",
                           " ", "T", "i", "m", "e">>,
                         <<"X", "y", "z">>}}
RowInputs ==
    {<<r>> : r \in NameRows \cup RangeRows} \cup SeqsUpTo(ReportRows, MaxRows)

\* answers of the language model to the panel-scoped question
LlmAnswers == {NoKey, HemoglobinEntry.key, RdwEntry.key}

\* StrictNormalizer(yaml_path)
NormStart ==
    /\ mappings \in Vocabularies
    /\ raw_rows = <<>>
    /\ normalizer_result = NotNormalized

\* normalize(raw_rows)
Normalize(rows, answer) ==
    /\ ~normalizer_result.called
    /\ raw_rows' = rows
    /\ LET rs == NormalizeRows(mappings, rows, answer)
       IN normalizer_result' = [called |-> TRUE, success |-> Len(rs) > 0,
                                results |-> rs,
                                unknown_tests |-> UnknownTests(rs)]
    /\ UNCHANGED <<mappings, rlVars, cacheVars, batchVars, panelVars, extractVars, jobVars, identVars, qualityVars>>

(* =========================== PanelValidator ============================ *)

\* PANEL_RULES, in the order of the dict; a rule without expected_pairs has
\* an empty list of pairs, one without optional tests an empty optional list
PanelRules ==
    <<[rule_id |-> "cbc_differential", name |-> "CBC Differential",
      triggers |-> <<<<"n", "e", "u", "t", "r", "o", "p", "h", "i", "l", "s">>, <<"l", "y", "m", "p", "h", "o", "c", "y", "t", "e", "s">>, <<"m", "o", "n", "o", "c", "y", "t", "e", "s">>, <<"e", "o", "s", "i", "n", "o", "p", "h", "i", "l", "s">>>>,
      paired |-> TRUE,
      expected_pairs |->
          <<[trigger |-> <<"n", "e", "u", "t", "r", "o", "p", "h", "i", "l", "s">>,
             expected_list |-> <<<<"a", "b", "s", "o", "l", "u", "t", "e", " ", "n", "e", "u", "t", "r", "o", "p", "h", "i", "l", " ", "c", "o", "u", "n", "t">>, <<"a", "n", "c">>, <<"n", "e", "u", "t", "r", "o", "p", "h", "i", "l", "s", " ", "(", "a", "b", "s", ")">>, <<"a", "b", "s", "o", "l", "u", "t", "e", " ", "n", "e", "u", "t", "r", "o", "p", "h", "i", "l", "s">>>>],
            [trigger |-> <<"l", "y", "m", "p", "h", "o", "c", "y", "t", "e", "s">>,
             expected_list |-> <<<<"a", "b", "s", "o", "l", "u", "t", "e", " ", "l", "y", "m", "p", "h", "o", "c", "y", "t", "e", " ", "c", "o", "u", "n", "t">>, <<"a", "l", "c">>, <<"l", "y", "m", "p", "h", "o", "c", "y", "t", "e", "s", " ", "(", "a", "b", "s", ")">>, <<"a", "b", "s", "o", "l", "u", "t", "e", " ", "l", "y", "m", "p", "h", "o", "c", "y", "t", "e", "s">>>>],
            [trigger |-> <<"m", "o", "n", "o", "c", "y", "t", "e", "s">>,
             expected_list |-> <<<<"a", "b", "s", "o", "l", "u", "t", "e", " ", "m", "o", "n", "o", "c", "y", "t", "e", " ", "c", "o", "u", "n", "t">>, <<"a", "m", "c">>, <<"m", "o", "n", "o", "c", "y", "t", "e", "s", " ", "(", "a", "b", "s", ")">>, <<"a", "b", "s", "o", "l", "u", "t", "e", " ", "m", "o", "n", "o", "c", "y", "t", "e", "s">>>>],
            [trigger |-> <<"e", "o", "s", "i", "n", "o", "p", "h", "i", "l", "s">>,
             expected_list |-> <<<<"a", "b", "s", "o", "l", "u", "t", "e", " ", "e", "o", "s", "i", "n", "o", "p", "h", "i", "l", " ", "c", "o", "u", "n", "t">>, <<"a", "e", "c">>, <<"e", "o", "s", "i", "n", "o", "p", "h", "i", "l", "s", " ", "(", "a", "b", "s", ")">>, <<"a", "b", "s", "o", "l", "u", "t", "e", " ", "e", "o", "s", "i", "n", "o", "p", "h", "i", "l", "s">>>>],
            [trigger |-> <<"b", "a", "s", "o", "p", "h", "i", "l", "s">>,
             expected_list |-> <<<<"a", "b", "s", "o", "l", "u", "t", "e", " ", "b", "a", "s", "o", "p", "h", "i", "l", " ", "c", "o", "u", "n", "t">>, <<"a", "b", "c">>, <<"b", "a", "s", "o", "p", "h", "i", "l", "s", " ", "(", "a", "b", "s", ")">>, <<"a", "b", "s", "o", "l", "u", "t", "e", " ", "b", "a", "s", "o", "p", "h", "i", "l", "s">>>>]>>,
      expected |-> <<>>,
      optional |-> <<>>,
      severity |-> "warning"],
     [rule_id |-> "coagulation", name |-> "Coagulation Panel",
      triggers |-> <<<<"i", "n", "r">>, <<"i", "n", "t", "e", "r", "n", "a", "t", "i", "o", "n", "a", "l", " ", "n", "o", "r", "m", "a", "l", "i", "z", "e", "d", " ", "r", "a", "t", "i", "o">>>>,
      paired |-> FALSE,
      expected_pairs |->
          <<>>,
      expected |-> <<<<"p", "r", "o", "t", "h", "r", "o", "m", "b", "i", "n", " ", "t", "i", "m", "e">>, <<"p", "t">>>>,
      optional |-> <<<<"a", "p", "t", "t">>, <<"a", "c", "t", "i", "v", "a", "t", "e", "d", " ", "p", "a", "r", "t", "i", "a", "l", " ", "t", "h", "r", "o", "m", "b", "o", "p", "l", "a", "s", "t", "i", "n", " ", "t", "i", "m", "e">>, <<"p", "t", "t">>>>,
      severity |-> "warning"],
     [rule_id |-> "coagulation_aptt", name |-> "Coagulation APTT",
      triggers |-> <<<<"a", "p", "t", "t">>, <<"a", "c", "t", "i", "v", "a", "t", "e", "d", " ", "p", "a", "r", "t", "i", "a", "l", " ", "t", "h", "r", "o", "m", "b", "o", "p", "l", "a", "s", "t", "i", "n", " ", "t", "i", "m", "e">>>>,
      paired |-> FALSE,
      expected_pairs |->
          <<>>,
      expected |-> <<<<"p", "r", "o", "t", "h", "r", "o", "m", "b", "i", "n", " ", "t", "i", "m", "e">>, <<"p", "t">>, <<"i", "n", "r">>>>,
      optional |-> <<>>,
      severity |-> "info"],
     [rule_id |-> "liver_panel", name |-> "Liver Function",
      triggers |-> <<<<"a", "l", "t">>, <<"s", "g", "p", "t">>, <<"a", "l", "a", "n", "i", "n", "e", " ", "a", "m", "i", "n", "o", "t", "r", "a", "n", "s", "f", "e", "r", "a", "s", "e">>>>,
      paired |-> FALSE,
      expected_pairs |->
          <<>>,
      expected |-> <<<<"a", "s", "t">>, <<"s", "g", "o", "t">>, <<"a", "s", "p", "a", "r", "t", "a", "t", "e", " ", "a", "m", "i", "n", "o", "t", "r", "a", "n", "s", "f", "e", "r", "a", "s", "e">>>>,
      optional |-> <<>>,
      severity |-> "info"],
     [rule_id |-> "kidney_panel", name |-> "Kidney Function",
      triggers |-> <<<<"c", "r", "e", "a", "t", "i", "n", "i", "n", "e">>>>,
      paired |-> FALSE,
      expected_pairs |->
          <<>>,
      expected |-> <<<<"b", "l", "o", "o", "d", " ", "u", "r", "e", "a", " ", "n", "i", "t", "r", "o", "g", "e", "n">>, <<"b", "u", "n">>, <<"u", "r", "e", "a">>>>,
      optional |-> <<<<"e", "g", "f", "r">>, <<"g", "f", "r">>>>,
      severity |-> "info"],
     [rule_id |-> "rbc_indices", name |-> "RBC Indices",
      triggers |-> <<<<"m", "c", "v">>, <<"m", "e", "a", "n", " ", "c", "o", "r", "p", "u", "s", "c", "u", "l", "a", "r", " ", "v", "o", "l", "u", "m", "e">>>>,
      paired |-> FALSE,
      expected_pairs |->
          <<>>,
      expected |-> <<<<"m", "c", "h">>, <<"m", "c", "h", "c">>>>,
      optional |-> <<>>,
      severity |-> "info"]>>

\* _get_test_names: the non-empty names of the results, lower-cased, stripped
GetTestNames(lab_results_) ==
    {Strip(Lower(r.test_name)) : r \in {x \in lab_results_ : x.test_name # <<>>}}
    \cup {Strip(Lower(r.original_name)) :
              r \in {x \in lab_results_ : x.original_name # <<>>}}

\* _test_matches: equal, or one contained in the other
TestMatches(found_tests, pattern) ==
    LET pattern_lower == Strip(Lower(pattern))
    IN  \E test \in found_tests :
            \/ test = pattern_lower
            \/ Contains(test, pattern_lower)
            \/ Contains(pattern_lower, test)

\* the members of a list that satisfy (keep = TRUE) or fail (keep = FALSE)
\* _test_matches, in the order of the list
RECURSIVE Matching(_, _, _)
Matching(list, found_tests, keep) ==
    IF list = <<>> THEN <<>>
    ELSE (IF TestMatches(found_tests, Head(list)) = keep THEN <<Head(list)>> ELSE <<>>)
         \o Matching(Tail(list), found_tests, keep)

\* _check_paired_rule: found and missing of the pairs from index k on
RECURSIVE PairedFound(_, _)
PairedFound(pairs, found_tests) ==
    IF pairs = <<>> THEN <<>>
    ELSE LET pair == Head(pairs)
             hits == Matching(pair.expected_list, found_tests, TRUE)
         IN  (IF ~TestMatches(found_tests, pair.trigger) THEN <<>>
              ELSE IF hits = <<>> THEN <<pair.trigger>>
              ELSE <<pair.trigger, Head(hits)>>)
             \o PairedFound(Tail(pairs), found_tests)
RECURSIVE PairedMissing(_, _)
PairedMissing(pairs, found_tests) ==
    IF pairs = <<>> THEN <<>>
    ELSE LET pair == Head(pairs)
             hits == Matching(pair.expected_list, found_tests, TRUE)
         IN  (IF TestMatches(found_tests, pair.trigger) /\ hits = <<>>
              THEN <<<<"A", "b", "s", "o", "l", "u", "t", "e", " ">> \o pair.trigger \o <<" ", "c", "o", "u", "n", "t">>>>
              ELSE <<>>)
             \o PairedMissing(Tail(pairs), found_tests)
CheckPairedRule(rule, found_tests) ==
    LET missing == PairedMissing(rule.expected_pairs, found_tests)
    IN  [is_complete |-> Len(missing) = 0,
         missing_tests |-> missing,
         panel_name |-> rule.name,
         found_tests |-> PairedFound(rule.expected_pairs, found_tests),
         severity |-> rule.severity]

\* _check_rule: no validation (an empty sequence) when no trigger is present
CheckRule(rule, found_tests) ==
    LET trigger_found == \E i \in 1..Len(rule.triggers) :
                             TestMatches(found_tests, rule.triggers[i])
        missing == Matching(rule.expected, found_tests, FALSE)
        found == Matching(rule.expected, found_tests, TRUE)
                 \o Matching(rule.optional, found_tests, TRUE)
    IN  IF ~trigger_found THEN <<>>
        ELSE IF rule.paired THEN <<CheckPairedRule(rule, found_tests)>>
        ELSE <<[is_complete |-> Len(missing) = 0,
                missing_tests |-> missing,
                panel_name |-> rule.name,
                found_tests |-> found,
                severity |-> rule.severity]>>

\* PanelValidator.validate: the validations of the rules that apply
RECURSIVE Validations(_, _)
Validations(rules, found_tests) ==
    IF rules = <<>> THEN <<>>
    ELSE CheckRule(Head(rules), found_tests) \o Validations(Tail(rules), found_tests)

RECURSIVE SumOver(_, _)
SumOver(validations, both) ==
    IF validations = <<>> THEN 0
    ELSE Len(Head(validations).found_tests)
         + (IF both THEN Len(Head(validations).missing_tests) ELSE 0)
         + SumOver(Tail(validations), both)

RECURSIVE Incomplete(_)
Incomplete(validations) ==
    IF validations = <<>> THEN <<>>
    ELSE (IF Head(validations).is_complete THEN <<>> ELSE <<Head(validations)>>)
         \o Incomplete(Tail(validations))

\* validate_panel_completeness(lab_results): the dict it returns; the
\* completeness score is kept as the fraction total_found / total_expected
ValidatePanelCompleteness(lab_results_) ==
    LET validations == Validations(PanelRules, GetTestNames(lab_results_))
        incomplete == Incomplete(validations)
    IN  [needs_review |->
             \E i \in 1..Len(validations) :
                 /\ validations[i].severity \in {"warning", "critical"}
                 /\ ~validations[i].is_complete,
         missing_panels |->
             [i \in 1..Len(incomplete) |->
                 [panel |-> incomplete[i].panel_name,
                  missing |-> incomplete[i].missing_tests,
                  found |-> incomplete[i].found_tests,
                  severity |-> incomplete[i].severity]],
         review_reasons |->
             [i \in 1..Len(incomplete) |->
                 [panel_name |-> incomplete[i].panel_name,
                  missing_tests |-> incomplete[i].missing_tests]],
         total_found |-> SumOver(validations, FALSE),
         total_expected |-> SumOver(validations, TRUE)]

\* results as they reach the panel check: canonical and original name
ResultCatalogue ==
    {[test_name |-> <<"I", "N", "R">>,
      original_name |-> <<"I", "N", "R">>],
     [test_name |-> <<"P", "r", "o", "t", "h", "r", "o", "m", "b", "i", "n", " ", "T", "i", "m", "e">>,
      original_name |-> <<"P", "T">>],
     [test_name |-> <<"P", "r", "o", "t", "h", "r", "o", "m", "b", "i", "n", " ", "T", "i", "m", "e">>,
      original_name |-> <<"P", "r", "o", "t", "h", "r", "o", "m", "b", "i", "n", " ", "T", "i", "m", "e">>],
     [test_name |-> <<"A", "P", "T", "T">>,
      original_name |-> <<"A", "P", "T", "T">>],
     [test_name |-> <<"T", "h", "r", "o", "m", "b", "i", "n", " ", "T", "i", "m", "e">>,
      original_name |-> <<"T", "h", "r", "o", "m", "b", "i", "n", " ", "T", "i", "m", "e">>],
     [test_name |-> <<"A", "l", "a", "n", "i", "n", "e", " ", "A", "m", "i", "n", "o", "t", "r", "a", "n", "s", "f", "e", "r", "a", "s", "e">>,
      original_name |-> <<"S", "G", "P", "T">>],
     [test_name |-> <<"C", "r", "e", "a", "t", "i", "n", "i", "n", "e">>,
      original_name |-> <<"C", "r", "e", "a", "t", "i", "n", "i", "n", "e">>],
     [test_name |-> <<"N", "e", "u", "t", "r", "o", "p", "h", "i", "l", "s">>,
      original_name |-> <<"N", "e", "u", "t", "r", "o", "p", "h", "i", "l", "s">>],
     [test_name |-> <<"H", "e", "m", "o", "g", "l", "o", "b", "i", "n">>,
      original_name |-> <<"H", "b">>],
     [test_name |-> <<"U", "N", "K", "N", "O", "W", "N">>,
      original_name |-> <<"X", "y", "z">>]}

\* result sets of up to MaxResults tests
ResultSets == {s \in SUBSET ResultCatalogue : Cardinality(s) <= MaxResults}

NoPanelValidation ==
    [called |-> FALSE, needs_review |-> FALSE, missing_panels |-> <<>>,
     review_reasons |-> <<>>, total_found |-> 0, total_expected |-> 0]

\* no panel check asked for yet
PanelStart ==
    /\ lab_results = {}
    /\ panel_validation = NoPanelValidation

\* validate_panel_completeness(lab_results)
ValidatePanel(rs) ==
    /\ ~panel_validation.called
    /\ lab_results' = rs
    /\ LET returned == ValidatePanelCompleteness(rs)
       IN  panel_validation' =
               [called |-> TRUE,
                needs_review |-> returned.needs_review,
                missing_panels |-> returned.missing_panels,
                review_reasons |-> returned.review_reasons,
                total_found |-> returned.total_found,
                total_expected |-> returned.total_expected]
    /\ UNCHANGED <<rlVars, cacheVars, batchVars, normVars, extractVars, jobVars, identVars, qualityVars>>

(* ========================== specifications ============================= *)

RLIdle ==
    /\ config = [requests_per_minute |-> 1, min_requests_per_minute |-> 1,
                 recovery_threshold |-> 1, adaptive_backoff |-> TRUE,
                 window_seconds |-> 1]
    /\ now = 0
    /\ requests = <<>>
    /\ effective_rpm = 1
    /\ consecutive_successes = 0
    /\ lock = 0
    /\ wakeAt = 0
    /\ lastOp = "init"
    /\ lastWaited = FALSE
    /\ steady = TRUE
    /\ nAcq = 0
    /\ firstTs = 0

CacheIdle ==
    /\ cacheConfig = [redis_enabled |-> TRUE, disk_enabled |-> TRUE,
                      has_redis |-> FALSE]
    /\ CacheStart

BatchIdle ==
    /\ processor = [entry |-> "none", has_acquire_async |-> FALSE,
                    max_workers |-> 0, api_key |-> FALSE, tracker_up |-> FALSE]
    /\ documents = [d \in DocIds |-> NoRow]
    /\ document_ids = <<>>
    /\ image_paths = <<>>
    /\ tasks = <<>>
    /\ sub_batch = 0
    /\ batch_result = NoBatchResult
    /\ results = NoResults
    /\ tracker = NoTracker
    /\ phase = "idle"

\* ---------------------------------------------------------------------------
\* workers/extraction/main.py: process_document, the job that upload_files
\* enqueues with job_timeout=600. The job is followed statement by statement;
\* the timeout of the queue is an exception raised in the job at the
\* statement it is executing when the budget runs out.
\* ---------------------------------------------------------------------------

\* The statements of process_document and, between "cache_get" and
\* "cache_set", of SingleVisionExtractor.extract, in program order. region
\* says which handler an exception raised at the statement meets:
\*   "outside"          none in process_document: the exception leaves the job
\*   "job_try"          the except Exception of process_document (157-172)
\*   "extract_try"      the except Exception of extract (304-315), which
\*                      returns success=False
\*   "swallow_continue" an except Exception of the stage itself, after which
\*                      extract carries on
\*   "swallow_fail"     the except Exception of _vision_extract, which returns
\*                      {} and so ends extract with success=False
JobSteps ==
    <<[at |-> "sleep",             region |-> "outside"],
      [at |-> "get",               region |-> "outside"],
      [at |-> "mark_processing",   region |-> "outside"],
      [at |-> "mark_logged",       region |-> "outside"],
      [at |-> "stage_extracting",  region |-> "job_try"],
      [at |-> "cache_get",         region |-> "extract_try"],
      [at |-> "load",              region |-> "extract_try"],
      [at |-> "quality",           region |-> "extract_try"],
      [at |-> "verify",            region |-> "swallow_continue"],
      [at |-> "vision",            region |-> "swallow_fail"],
      [at |-> "normalize",         region |-> "extract_try"],
      [at |-> "llm_validate",      region |-> "swallow_continue"],
      [at |-> "panel",             region |-> "extract_try"],
      [at |-> "summary",           region |-> "swallow_continue"],
      [at |-> "verify_quality",    region |-> "extract_try"],
      [at |-> "cache_set",         region |-> "swallow_continue"],
      [at |-> "stage_normalizing", region |-> "job_try"],
      [at |-> "add_result",        region |-> "job_try"],
      [at |-> "stage_saving",      region |-> "job_try"],
      [at |-> "save_tests",        region |-> "job_try"],
      [at |-> "finish",            region |-> "job_try"],
      [at |-> "handler",           region |-> "outside"]>>

StepIndex(at) == CHOOSE i \in 1..Len(JobSteps) : JobSteps[i].at = at
RegionOf(at) == JobSteps[StepIndex(at)].region
NextStep(at) == JobSteps[StepIndex(at) + 1].at
Running == {JobSteps[i].at : i \in 1..Len(JobSteps)}

\* the stage at which extract returns when nothing interrupts it
LastStage(run) ==
    IF run.load = "raises" THEN "load"
    ELSE IF run.quality = "poor" THEN "quality"
    ELSE IF run.verification = "not_medical" THEN "verify"
    ELSE IF run.vision # "results" THEN "vision"
    ELSE "cache_set"

\* Document(status="queued") and the job record; success is
\* extraction_result.success once extract has returned
NoDocument == [status |-> "absent", processing_stage |-> "none"]
NoJob ==
    [pc |-> "idle", run |-> Unreached, success |-> FALSE, timed_out |-> FALSE,
     swallowed |-> FALSE]

JobStart == document = NoDocument /\ job = NoJob

\* upload_files: the Document row and queue.enqueue(..., job_timeout=600)
Enqueue(run) ==
    /\ job.pc = "idle"
    /\ UNCHANGED <<rlVars, cacheVars, batchVars, normVars, panelVars, extractVars, identVars, qualityVars>>
    /\ document' = [status |-> "queued", processing_stage |-> "none"]
    /\ job' = [NoJob EXCEPT !.pc = "sleep", !.run = run]

\* session.commit() in update_stage and in the handler writes doc.status too
Commit(status, stage) == [status |-> status, processing_stage |-> stage]

\* extract has returned: process_document goes on at update_stage("normalizing")
ExtractReturns(success) ==
    [job EXCEPT !.pc = "stage_normalizing", !.success = success]

\* one statement of the job runs to its end; raises says whether
\* _save_normalized_tests (or the commit around it) raises
Advance(hit, raises) ==
    /\ job.pc \in Running
    /\ UNCHANGED <<rlVars, cacheVars, batchVars, normVars, panelVars, extractVars, identVars, qualityVars>>
    /\ LET at == job.pc IN
       CASE at = "mark_processing" ->
              /\ document' = Commit("processing", "queued")
              /\ job' = [job EXCEPT !.pc = NextStep(at)]
         [] at = "stage_extracting" ->
              /\ document' = Commit(document.status, "extracting")
              /\ job' = [job EXCEPT !.pc = NextStep(at)]
         [] at = "cache_get" ->
              /\ UNCHANGED document
              /\ job' = IF hit THEN ExtractReturns(TRUE)
                        ELSE [job EXCEPT !.pc = NextStep(at)]
         [] at \in {"load", "quality", "verify", "vision", "normalize",
                    "llm_validate", "panel", "summary", "verify_quality",
                    "cache_set"} ->
              /\ UNCHANGED document
              /\ job' = IF at = LastStage(job.run)
                        THEN ExtractReturns(ExtractPipeline(job.run).success)
                        ELSE [job EXCEPT !.pc = NextStep(at)]
         [] at = "stage_normalizing" ->
              /\ document' = Commit(document.status, "normalizing")
              /\ job' = [job EXCEPT !.pc = NextStep(at)]
         [] at = "stage_saving" ->
              /\ document' = Commit(document.status, "saving")
              /\ job' = [job EXCEPT !.pc = NextStep(at)]
         [] at = "save_tests" ->
              /\ UNCHANGED document
              /\ job' = [job EXCEPT !.pc = IF raises /\ job.success
                                           THEN "handler" ELSE NextStep(at)]
         [] at = "finish" ->
              /\ document' = IF job.success THEN Commit("completed", "completed")
                             ELSE Commit("failed", "failed")
              /\ job' = [job EXCEPT !.pc = "done"]
         [] at = "handler" ->
              /\ document' = Commit("failed", document.processing_stage)
              /\ job' = [job EXCEPT !.pc = "done"]
         [] OTHER ->
              /\ UNCHANGED document
              /\ job' = [job EXCEPT !.pc = NextStep(at)]

\* the runs in which the verification call failed and was passed over
\* ("Verification failed", fail open)
VerificationPassedOver ==
    {r \in Runs : r.quality = "acceptable" /\ r.verification = "error"}

\* the 600 s run out while the job is at job.pc: the exception is raised
\* there, before the statement has had its effect, and meets the handler of
\* the region
JobTimeout ==
    /\ job.pc \in Running
    /\ ~job.timed_out
    /\ UNCHANGED document
    /\ UNCHANGED <<rlVars, cacheVars, batchVars, normVars, panelVars, extractVars, identVars, qualityVars>>
    /\ LET at == job.pc
           region == RegionOf(at)
           noted == [job EXCEPT !.timed_out = TRUE]
       IN CASE region = "outside" -> job' = [noted EXCEPT !.pc = "raised"]
            [] region = "job_try" -> job' = [noted EXCEPT !.pc = "handler"]
            [] region \in {"extract_try", "swallow_fail"} ->
                 job' = [noted EXCEPT !.pc = "stage_normalizing",
                                      !.success = FALSE]
            [] region = "swallow_continue" /\ at = "verify" ->
                 \E r \in VerificationPassedOver :
                    job' = [noted EXCEPT !.pc = NextStep(at), !.run = r,
                                         !.swallowed = TRUE]
            [] region = "swallow_continue" /\ at = "cache_set" ->
                 job' = [noted EXCEPT !.pc = "stage_normalizing",
                                      !.success = TRUE, !.swallowed = TRUE]
            [] OTHER ->
                 job' = [noted EXCEPT !.pc = NextStep(at), !.swallowed = TRUE]

\* ---------------------------------------------------------------------------
\* single_vision_extractor.py: _process_patient_identity and the module-level
\* _patient_memory = deque(maxlen=20). A name is the sequence of its
\* whitespace-separated words, an age likewise; None and '' are <<>> and "".
\* The document_id and timestamp of an entry are never read and are left out.
\* ---------------------------------------------------------------------------

\* str.lower() on the words that occur
LowerWord(w) ==
    CASE w = "John" -> "john"
      [] w = "Smith" -> "smith"
      [] w = "Doe" -> "doe"
      [] w = "Adam" -> "adam"
      [] OTHER -> w
LowerName(name) == [i \in 1..Len(name) |-> LowerWord(name[i])]
Words(name) == {name[i] : i \in 1..Len(name)}

\* gender[0].upper()
FirstUpper(gender) ==
    CASE gender \in {"Male", "m"} -> "M"
      [] gender \in {"Female", "f"} -> "F"
      [] OTHER -> gender

PatientNames ==
    {<<>>, <<"John", "Smith">>, <<"john", "smith">>, <<"John", "Doe">>,
     <<"John", "Adam", "Smith">>}
PatientAges == {<<>>, <<"45", "Years">>, <<"30">>}
PatientGenders == {"", "Male", "m", "f"}
DeclaredIds == {"", "P1"}
PatientInfos ==
    [name : PatientNames, patient_id : DeclaredIds, age : PatientAges,
     gender : PatientGenders]

\* f"AUTO-{uuid.uuid4().hex[:8].upper()}": the n-th identifier generated
AutoIds == <<"AUTO-1", "AUTO-2", "AUTO-3", "AUTO-4", "AUTO-5">>
AutoId(n) == AutoIds[n]

\* _names_similar, on lowered names
NamesSimilar(name1, name2) ==
    LET words1 == Words(name1)
        words2 == Words(name2)
        common == words1 \cap words2
    IN \/ Cardinality(common) >= 2
       \/ /\ Cardinality(common) >= 1
          /\ Max(Cardinality(words1), Cardinality(words2)) <= 2

AgeMatch(age, entry_age) ==
    IF age # <<>> /\ entry_age # <<>> THEN age[1] = entry_age[1] ELSE TRUE
GenderMatch(gender, entry_gender) ==
    IF gender # "" /\ entry_gender # ""
    THEN FirstUpper(gender) = FirstUpper(entry_gender) ELSE TRUE

\* what the loop body of _match_patient_from_memory decides for one entry
EntryMatches(name_lower, age, gender, entry) ==
    /\ entry.patient_name # <<>>
    /\ \/ name_lower = LowerName(entry.patient_name)
       \/ /\ NamesSimilar(name_lower, LowerName(entry.patient_name))
          /\ AgeMatch(age, entry.age)
          /\ GenderMatch(gender, entry.gender)

\* _match_patient_from_memory: the most recent entry first; "" is None
RECURSIVE MatchFrom(_, _, _, _, _)
MatchFrom(memory, i, name_lower, age, gender) ==
    IF i = 0 THEN ""
    ELSE IF EntryMatches(name_lower, age, gender, memory[i])
    THEN memory[i].patient_id
    ELSE MatchFrom(memory, i - 1, name_lower, age, gender)
MatchPatientFromMemory(memory, patient_name, age, gender) ==
    IF patient_name = <<>> THEN ""
    ELSE MatchFrom(memory, Len(memory), LowerName(patient_name), age, gender)

\* deque(maxlen=RingLen).append
RingAppend(memory, entry) ==
    IF Len(memory) < RingLen THEN Append(memory, entry)
    ELSE Append(Tail(memory), entry)

MemoryEntry(info, patient_id) ==
    [patient_name |-> info.name, patient_id |-> patient_id, age |-> info.age,
     gender |-> info.gender]

NoPatientInfo ==
    [given |-> [name |-> <<>>, patient_id |-> "", age |-> <<>>, gender |-> ""],
     patient_id |-> "", matched_from_memory |-> FALSE,
     auto_generated_id |-> FALSE]

IdentStart ==
    /\ patient_memory = <<>>
    /\ patient_info = NoPatientInfo
    /\ processed = 0

\* _process_patient_identity(patient_info, document_id); patient_info keeps
\* the dict that was given and what was returned
ProcessPatientIdentity(info) ==
    /\ processed < MaxDocuments
    /\ processed' = processed + 1
    /\ LET matched_id == MatchPatientFromMemory(patient_memory, info.name,
                                                info.age, info.gender)
           new_id == AutoId(processed + 1)
           patient_id == IF info.patient_id # "" THEN info.patient_id
                         ELSE IF matched_id # "" THEN matched_id
                         ELSE new_id
       IN /\ patient_memory' = RingAppend(patient_memory,
                                          MemoryEntry(info, patient_id))
          /\ patient_info' =
                [given |-> info, patient_id |-> patient_id,
                 matched_from_memory |-> info.patient_id = "" /\ matched_id # "",
                 auto_generated_id |-> info.patient_id = "" /\ matched_id = ""]
    /\ UNCHANGED <<rlVars, cacheVars, batchVars, normVars, panelVars, extractVars, jobVars, qualityVars>>

\* ---------------------------------------------------------------------------
\* workers/extraction/ocr_quality.py: evaluate_ocr_quality, as a function of
\* the metrics it measures on the image. blur_score, contrast and brightness
\* are whole numbers; text_clarity, noise_level and uniform_ratio are in
\* hundredths, text_density in thousandths, skew_angle in tenths of a degree
\* and the quality score in ten-thousandths.
\* ---------------------------------------------------------------------------

QUALITY_THRESHOLDS ==
    [min_resolution |-> 400, blur_score |-> 50, blur_score_critical |-> 25,
     contrast_min |-> 35, contrast_max |-> 90, brightness_min |-> 50,
     brightness_max |-> 220, text_density_min |-> 30, skew_angle_max |-> 50,
     noise_threshold |-> 15]

ImageMetrics ==
    [min_dimension : {300, 1200},
     blur_score : {10, 24, 25, 49, 50, 300},
     text_clarity : {10, 20, 24, 25, 30, 44, 45, 49, 50, 55, 70},
     contrast : {30, 60, 85, 86, 90, 91},
     brightness : {40, 150, 230},
     text_density : {20, 100},
     skew_angle : {0, 60},
     noise_level : {5, 20},
     uniform_ratio : {0, 60}]

\* the issues found by checks 1 to 8, each as the penalty that
\* _calculate_quality_score takes for its text (the first branch of its
\* if/elif chain that the text meets), in ten-thousandths
IssuePenalties(m) ==
    (IF m.min_dimension < QUALITY_THRESHOLDS.min_resolution
     THEN <<1500>> ELSE <<>>)                        \* "Low resolution"
    \o (IF m.blur_score >= QUALITY_THRESHOLDS.blur_score THEN <<>>
        ELSE IF m.blur_score < QUALITY_THRESHOLDS.blur_score_critical
        THEN <<2000>>                                \* "extremely blurry"
        ELSE <<2500>>)                               \* "very blurry"
    \o (IF m.text_clarity < 40 THEN <<3500>>         \* "Very low text clarity"
        ELSE IF m.text_clarity < 55 THEN <<2000>>    \* "Low text clarity"
        ELSE <<>>)
    \o (IF m.contrast < QUALITY_THRESHOLDS.contrast_min
        THEN <<1500>>                                \* "Low contrast"
        ELSE IF m.contrast > QUALITY_THRESHOLDS.contrast_max
        THEN <<2000>>                                \* "... may indicate noise"
        ELSE <<>>)
    \o (IF m.brightness < QUALITY_THRESHOLDS.brightness_min
        THEN <<2500>>                                \* "too dark"
        ELSE IF m.brightness > QUALITY_THRESHOLDS.brightness_max
        THEN <<2500>>                                \* "washed out"
        ELSE <<>>)
    \o (IF m.text_density < QUALITY_THRESHOLDS.text_density_min
        THEN <<1500>> ELSE <<>>)                     \* "Low text density"
    \o (IF m.skew_angle > QUALITY_THRESHOLDS.skew_angle_max
        THEN <<2000>> ELSE <<>>)                     \* "skewed"
    \o (IF m.noise_level > QUALITY_THRESHOLDS.noise_threshold
        THEN <<2000>> ELSE <<>>)                     \* "High noise level"
    \o (IF m.uniform_ratio > 50 THEN <<1000>> ELSE <<>>)

RECURSIVE SumSeq(_)
SumSeq(s) == IF s = <<>> THEN 0 ELSE Head(s) + SumSeq(Tail(s))

\* _calculate_quality_score
CalculateQualityScore(m) ==
    LET penalised == 10000 - SumSeq(IssuePenalties(m))
        clarity == IF m.text_clarity < 40
                   THEN penalised - 20 * (40 - m.text_clarity) ELSE penalised
        bonus == (IF m.min_dimension >= 1200 THEN 1000 ELSE 0)
                 + (IF m.blur_score >= 300 THEN 500 ELSE 0)
                 + (IF 50 <= m.contrast /\ m.contrast <= 80 THEN 1000 ELSE 0)
                 + (IF 100 <= m.brightness /\ m.brightness <= 180 THEN 500 ELSE 0)
                 + (IF m.skew_angle < 10 THEN 500 ELSE 0)
                 + (IF m.text_clarity >= 70 THEN 1000 ELSE 0)
    IN Max(0, Min(10000, clarity + bonus))

\* the acceptance rules without the noisy-scan rule
IsAcceptableNoNoisyScan(score, m) ==
    LET base == score >= 3000 /\ m.text_clarity >= 20
        blur == IF m.blur_score < QUALITY_THRESHOLDS.blur_score_critical
                THEN FALSE
                ELSE IF m.blur_score < QUALITY_THRESHOLDS.blur_score
                        /\ m.text_clarity < 50
                THEN FALSE
                ELSE base
    IN IF m.text_clarity < 25 THEN FALSE ELSE blur

\* the acceptance rules of evaluate_ocr_quality, in the order of the code
IsAcceptable(score, m) ==
    LET base == score >= 3000 /\ m.text_clarity >= 20
        blur == IF m.blur_score < QUALITY_THRESHOLDS.blur_score_critical
                THEN FALSE
                ELSE IF m.blur_score < QUALITY_THRESHOLDS.blur_score
                        /\ m.text_clarity < 50
                THEN FALSE
                ELSE base
        noisy == IF m.contrast > 85 /\ m.text_clarity < 45 THEN FALSE ELSE blur
    IN IF m.text_clarity < 25 THEN FALSE ELSE noisy

NoQuality ==
    [evaluated |-> FALSE,
     metrics |-> [min_dimension |-> 0, blur_score |-> 0, text_clarity |-> 0,
                  contrast |-> 0, brightness |-> 0, text_density |-> 0,
                  skew_angle |-> 0, noise_level |-> 0, uniform_ratio |-> 0],
     quality_score |-> 0, is_acceptable |-> FALSE]

QualityIdle == quality = NoQuality

\* an image with its metrics, not yet evaluated
QualityStart ==
    \E m \in ImageMetrics : quality = [NoQuality EXCEPT !.metrics = m]

\* The source adds the penalties in floating point, where a sum that is 0.3
\* on paper comes out as 0.3 or as 0.29999999999999993 depending on the
\* penalties added; short says which, and a score just short of 0.3 is
\* written 2999.
FloatScore(exact, short) == IF exact = 3000 /\ short THEN 2999 ELSE exact

\* evaluate_ocr_quality(image)
EvaluateOcrQuality(short) ==
    /\ ~quality.evaluated
    /\ quality.metrics \in ImageMetrics
    /\ LET score == FloatScore(CalculateQualityScore(quality.metrics), short)
       IN quality' = [quality EXCEPT !.evaluated = TRUE,
                                     !.quality_score = score,
                                     !.is_acceptable =
                                         IsAcceptable(score, quality.metrics)]
    /\ UNCHANGED <<rlVars, cacheVars, batchVars, normVars, panelVars, extractVars, jobVars, identVars>>

NormIdle ==
    /\ mappings = FixtureVocabulary
    /\ raw_rows = <<>>
    /\ normalizer_result = NotNormalized

PanelIdle == PanelStart

ExtractIdle == ExtractStart

JobIdle == JobStart

IdentIdle == IdentStart

RestIdle == NormIdle /\ PanelIdle /\ ExtractIdle /\ JobIdle /\ IdentIdle /\ QualityIdle

RLInit == RLStart /\ CacheIdle /\ BatchIdle /\ RestIdle
RLNext == RLStep
SpecRL == RLInit /\ [][RLNext]_vars

\* CacheManager(redis_client, config), used through its public methods
CacheInit ==
    /\ RLIdle
    /\ BatchIdle
    /\ RestIdle
    /\ cacheConfig \in CacheConfig
    /\ CacheStart
CacheNext ==
    \/ \E h \in Hashes : GetCachedResult(h)
    \/ \E h \in Hashes, p \in Payloads : CacheResult(h, p)
    \/ \E h \in Hashes : Invalidate(h)
    \/ \E raises \in BOOLEAN : ClearAll(raises)
    \/ \E h \in Hashes : RedisExpire(h)
    \/ RedisOutage
    \/ DiskOutage
SpecCache == CacheInit /\ [][CacheNext]_vars

\* SingleVisionExtractor.__init__: CacheManager(redis_client or None), with
\* the default CacheConfig
ExtractInit ==
    /\ RLIdle
    /\ BatchIdle
    /\ RestIdle
    /\ cacheConfig \in {c \in CacheConfig : c.redis_enabled /\ c.disk_enabled}
    /\ CacheStart
ExtractNext ==
    \/ \E d \in Docs, run \in {CleanRun, PoorRun} : Extract(d, run)
    \/ \E h \in Hashes : RedisExpire(h)
    \/ RedisOutage
    \/ DiskOutage
SpecExtract == ExtractInit /\ [][ExtractNext]_vars

\* one extractor whose cache tiers stay reachable; every run of the stages
PipelineInit == ExtractInit
PipelineNext == \E d \in {x \in Docs : x.name = x.bytes}, run \in Runs : Extract(d, run)
SpecPipeline == PipelineInit /\ [][PipelineNext]_vars

\* one document: uploaded once, its job run once, the timeout striking at
\* most once and anywhere
JobInit == RLIdle /\ CacheIdle /\ BatchIdle /\ RestIdle
JobNext ==
    \/ \E run \in Runs : Enqueue(run)
    \/ \E hit \in BOOLEAN, raises \in BOOLEAN : Advance(hit, raises)
    \/ JobTimeout
SpecJob == JobInit /\ [][JobNext]_vars

\* one worker process: its ring starts empty and lives as long as it
IdentInit == RLIdle /\ CacheIdle /\ BatchIdle /\ NormIdle /\ PanelIdle /\ ExtractIdle /\ JobIdle /\ IdentStart /\ QualityIdle
IdentNext == \E info \in PatientInfos : ProcessPatientIdentity(info)
SpecIdent == IdentInit /\ [][IdentNext]_vars

\* one image and its evaluation
QualityInit ==
    /\ RLIdle /\ CacheIdle /\ BatchIdle /\ NormIdle /\ PanelIdle
    /\ ExtractIdle /\ JobIdle /\ IdentIdle /\ QualityStart
QualityNext == \E short \in BOOLEAN : EvaluateOcrQuality(short)
SpecQuality == QualityInit /\ [][QualityNext]_vars

\* a batch run with the limiter of get_rate_limiter() (or an injected one
\* that has acquire_async) and the cache of get_cache_manager(), which may
\* hold entries written by earlier runs
BatchInit ==
    /\ RLStart
    /\ config.requests_per_minute = MaxRpm
    /\ config.min_requests_per_minute = DefaultMinRpm
    /\ config.recovery_threshold = MaxThreshold
    /\ config.adaptive_backoff
    /\ cacheConfig \in {c \in CacheConfig : c.redis_enabled /\ c.disk_enabled}
    /\ redisUp = TRUE
    /\ diskUp = TRUE
    /\ redisStore = [h \in Hashes |-> NoEntry]
    /\ diskStore \in [Hashes -> {NoEntry, Entry([shape |-> "json", id |-> 1])}]
    /\ stats = NoStats
    /\ nCalls = 0
    /\ lastCall = [f \in DOMAIN NoCall \cup {"prev"} |->
                      IF f = "prev" THEN NoCall ELSE NoCall[f]]
    /\ BatchStart
    /\ RestIdle
BatchNext ==
    \/ ProcessDocumentBatch
    \/ ProcessImagesAsync
    \/ \E i \in 1..MaxBatch : ProcessSingleImage(i)
    \/ \E i \in 1..MaxBatch, o \in PassOutcomes : VisionReturns(i, o)
    \/ CollectSubBatch
    \/ ProcessDocumentBatchFinish
SpecBatch == BatchInit /\ [][BatchNext]_vars

\* one StrictNormalizer and one call of normalize
NormInit ==
    /\ RLIdle
    /\ CacheIdle
    /\ BatchIdle
    /\ NormStart
    /\ PanelIdle
    /\ ExtractIdle
    /\ JobIdle
    /\ IdentIdle
    /\ QualityIdle
NormNext == \E rows \in RowInputs, answer \in LlmAnswers : Normalize(rows, answer)
SpecNorm == NormInit /\ [][NormNext]_vars

PanelInit ==
    /\ RLIdle
    /\ CacheIdle
    /\ BatchIdle
    /\ NormIdle
    /\ PanelStart
    /\ ExtractIdle
    /\ JobIdle
    /\ IdentIdle
    /\ QualityIdle
PanelNext == \E rs \in ResultSets : ValidatePanel(rs)
SpecPanel == PanelInit /\ [][PanelNext]_vars

(* ===================== claims on the rate limiter ====================== *)

\* C1 (as claimed): whenever acquire has recorded a timestamp, the recorded
\* timestamps within the trailing window, the new one included, do not
\* exceed the effective requests-per-minute in force.
AcquireWithinBudget ==
    lastOp = "acquire" =>
        InWindow(requests, now, config.window_seconds) <= effective_rpm

RpmWithinBounds ==
    /\ config.min_requests_per_minute <= effective_rpm
    /\ effective_rpm <= config.requests_per_minute

\* C4 (as claimed): every report_rate_limit_error call sets the effective
\* rpm to max(floor(old * backoff_factor), minimum) and the success counter
\* to 0.
BackoffOnEveryError ==
    [][lastOp' = "error" =>
        /\ effective_rpm' =
              Max((effective_rpm * BackoffNum) \div BackoffDen,
                  config.min_requests_per_minute)
        /\ consecutive_successes' = 0]_vars

\* C4 (amended): a report_rate_limit_error call on a limiter whose
\* adaptive_backoff is enabled sets the effective rpm to
\* max(floor(old * backoff_factor), minimum) and the success counter to 0;
\* with adaptive_backoff disabled the call changes neither.
BackoffWhenAdaptive ==
    [][lastOp' = "error" =>
        IF config.adaptive_backoff
        THEN /\ effective_rpm' =
                   Max((effective_rpm * BackoffNum) \div BackoffDen,
                       config.min_requests_per_minute)
             /\ consecutive_successes' = 0
        ELSE UNCHANGED <<effective_rpm, consecutive_successes>>]_vars

\* C4 witness: a backoff lowered the rpm to the configured minimum
BackoffWhenAdaptiveWitness ==
    /\ lastOp = "error"
    /\ config.adaptive_backoff
    /\ effective_rpm = config.min_requests_per_minute
    /\ effective_rpm < config.requests_per_minute

\* C5 (as claimed): when the limiter is backed off and report_success
\* brings the success counter to recovery_threshold, the call raises the
\* effective rpm to a strictly larger value, at most requests_per_minute.
RecoveryRaisesRpm ==
    [][(/\ lastOp' = "success"
        /\ config.adaptive_backoff
        /\ effective_rpm < config.requests_per_minute
        /\ consecutive_successes + 1 = config.recovery_threshold)
       => (/\ effective_rpm' > effective_rpm
           /\ effective_rpm' <= config.requests_per_minute)]_vars

(* ========================= claims on the cache ========================= *)

\* a tier that is enabled and whose backing store answers
SomeTierWorking ==
    \/ Tier1(cacheConfig) /\ redisUp
    \/ Tier2(cacheConfig) /\ diskUp

\* C6 (as claimed): with at least one enabled tier working,
\* cache_result(h, p) followed by get_cached_result(h) returns the identical
\* payload p.
CacheRoundTrip ==
    (/\ lastCall.op = "get"
     /\ lastCall.prev.op = "cache_result"
     /\ lastCall.prev.hash = lastCall.hash
     /\ SomeTierWorking)
    => (lastCall.ret.present /\ lastCall.ret.result = lastCall.prev.arg)

TierOrderAndPromotion ==
    lastCall.op = "get" =>
        /\ lastCall.t2 # "skip" => lastCall.t1 # "hit"
        /\ ~lastCall.ret.present => (lastCall.t1 # "hit" /\ lastCall.t2 # "hit")
        /\ (/\ lastCall.prev.op = "get"
            /\ lastCall.prev.hash = lastCall.hash
            /\ lastCall.prev.t2 = "hit"
            /\ Tier1(cacheConfig))
           => (lastCall.t1 = "hit" /\ lastCall.ret = lastCall.prev.ret)

\* C9 (as claimed): when exactly one of the two tiers fails during
\* get_cached_result, cache_result or invalidate, the call does not raise
\* and the other tier is read, written or cleared as without the failure.
SingleTierFailureAbsorbed ==
    (/\ lastCall.op \in {"get", "cache_result", "invalidate"}
     /\ Tier1(cacheConfig) /\ Tier2(cacheConfig)
     /\ redisUp # diskUp)
    => /\ ~lastCall.raised
       /\ lastCall.op = "get" =>
             lastCall.ret = IF diskUp THEN diskStore[lastCall.hash]
                            ELSE redisStore[lastCall.hash]
       /\ lastCall.op = "cache_result" =>
             IF diskUp THEN diskStore[lastCall.hash] = Entry(lastCall.arg)
             ELSE JsonSerializable(Entry(lastCall.arg)) =>
                    redisStore[lastCall.hash] = JsonRoundTrip(Entry(lastCall.arg))
       /\ lastCall.op = "invalidate" =>
             IF diskUp THEN ~diskStore[lastCall.hash].present
             ELSE ~redisStore[lastCall.hash].present

(* ========================= claims on the batch ========================= *)

\* the task that ran for the k-th submitted id (0 when the id has no row)
TaskOf(k) ==
    IF documents[document_ids[k]].exists
    THEN Len(FoundDocs(SubSeq(document_ids, 1, k)))
    ELSE 0

\* submitted items that did not yield a result
NoResultImages == {i \in 1..Len(image_paths) : tasks[i] = "failed"}
NoResultDocuments ==
    {k \in 1..Len(document_ids) : TaskOf(k) = 0 \/ tasks[TaskOf(k)] = "failed"}

\* C10 (as claimed): when a batch of N items finishes, its report has
\* total = N, failed = M and successful = N - M, M being the number of
\* submitted items without a result; for the BatchResult of
\* process_images_async and for the job result and tracker record of
\* process_document_batch.
BatchCountsAddUp ==
    (phase = "returned" /\ results.error = "none") =>
        IF processor.entry = "images"
        THEN /\ batch_result.total = Len(image_paths)
             /\ batch_result.failed = Cardinality(NoResultImages)
             /\ batch_result.successful =
                    Len(image_paths) - Cardinality(NoResultImages)
        ELSE /\ results.total = Len(document_ids)
             /\ results.failed = Cardinality(NoResultDocuments)
             /\ results.successful =
                    Len(document_ids) - Cardinality(NoResultDocuments)
             /\ tracker.exists =>
                    /\ tracker.total = Len(document_ids)
                    /\ tracker.failed = Cardinality(NoResultDocuments)
                    /\ tracker.successful =
                           Len(document_ids) - Cardinality(NoResultDocuments)

\* pipelines that have started and not yet resolved
InFlight == {i \in DOMAIN tasks : tasks[i] \in {"scheduled", "vision"}}

\* the sub-batch a path belongs to
SubBatchOf(i) == (i - 1) \div processor.max_workers

\* C11: during process_images_async at most max_workers pipelines are in
\* flight, and no pipeline of a later sub-batch has started while a pipeline
\* of an earlier sub-batch is unresolved.
BoundedInFlight ==
    phase = "gather" =>
        /\ Cardinality(InFlight) <= processor.max_workers
        /\ \A i, j \in DOMAIN tasks :
              (tasks[i] # "waiting" /\ SubBatchOf(j) < SubBatchOf(i))
              => tasks[j] \in Resolved

\* C11 witness: a pipeline of the second sub-batch is running after the
\* first sub-batch has resolved
BoundedInFlightWitness ==
    /\ phase = "gather"
    /\ sub_batch > 1
    /\ tasks[sub_batch] = "vision"
    /\ tasks[1] \in Resolved

(* ======================= claims on the normalizer ====================== *)

\* the i-th result of the last normalize call, and the results that carry
\* the name of a given input row
ResultAt(i) == normalizer_result.results[i]
ResultsOf(row) ==
    {i \in 1..Len(normalizer_result.results) :
        ResultAt(i).original_name = Strip(row.test_name)}

\* the vocabulary has an entry of this canonical name with this alias
HasEntry(vocab, canonical_name, alias) ==
    \E i \in 1..Len(vocab) :
        /\ vocab[i].canonical_name = canonical_name
        /\ \E a \in 1..Len(vocab[i].aliases) : vocab[i].aliases[a] = alias

\* C12 (as claimed): when the vocabulary holds both Red Blood Cell Count
\* (alias rbc) and Red Cell Distribution Width (alias rdw), every row named
\* RBC, in any letter case, comes out of normalize as Red Blood Cell Count
\* and never as Red Cell Distribution Width, whatever rows accompany it.
RbcNeverRdw ==
    ( /\ normalizer_result.called
      /\ HasEntry(mappings, RedBloodCellsEntry.canonical_name, <<"r", "b", "c">>)
      /\ HasEntry(mappings, RdwEntry.canonical_name, <<"r", "d", "w">>) )
    => \A i \in 1..Len(normalizer_result.results) :
          Lower(ResultAt(i).original_name) = <<"r", "b", "c">>
          => /\ ResultAt(i).test_name = RedBloodCellsEntry.canonical_name
             /\ ResultAt(i).test_name # RdwEntry.canonical_name

\* C13 (as claimed): every row whose name, lower-cased and trimmed, is a
\* key, canonical name or alias of the vocabulary comes out mapped to that
\* entry with mapping method "exact", whichever panel its name suggests.
ExactNamesMapExact ==
    normalizer_result.called
    => \A k \in 1..Len(raw_rows) :
          LET normalized == Strip(Lower(raw_rows[k].test_name))
          IN  InWhitelist(mappings, normalized)
              => /\ ResultsOf(raw_rows[k]) # {}
                 /\ \A i \in ResultsOf(raw_rows[k]) :
                       /\ ResultAt(i).mapping_method = "exact"
                       /\ ResultAt(i).test_name =
                             MappingOf(mappings,
                                       WhitelistGet(mappings, normalized)).canonical_name

\* C14 (as claimed): normalize drops no row: every input row with a
\* non-empty name has a result carrying that name, there are as many results
\* as such rows, and a row that is not mapped is emitted as UNKNOWN with
\* needs_review set and its name listed in unknown_tests.
NamedRows == {k \in 1..Len(raw_rows) : Strip(raw_rows[k].test_name) # <<>>}
NoRowDropped ==
    normalizer_result.called
    => /\ \A k \in NamedRows : ResultsOf(raw_rows[k]) # {}
       /\ Len(normalizer_result.results) = Cardinality(NamedRows)
       /\ \A i \in 1..Len(normalizer_result.results) :
             ResultAt(i).mapping_method = "unknown"
             => /\ ResultAt(i).test_name = UnknownName
                /\ ResultAt(i).needs_review
                /\ \E u \in 1..Len(normalizer_result.unknown_tests) :
                      normalizer_result.unknown_tests[u] = ResultAt(i).original_name

\* C15 (as claimed): a mapped row has needs_review set whenever its mapping
\* method is fuzzy or llm, or its parsed value lies below a parsed low bound
\* or above a parsed high bound, one-sided ranges included, flag or no flag.
OutsideParsedRange(r) ==
    /\ r.value_numeric.some
    /\ \/ r.ref_low.some /\ r.value_numeric.v < r.ref_low.v
       \/ r.ref_high.some /\ r.value_numeric.v > r.ref_high.v
ReviewWhenDue ==
    normalizer_result.called
    => \A i \in 1..Len(normalizer_result.results) :
          ( /\ ResultAt(i).mapping_method # "unknown"
            /\ \/ ResultAt(i).mapping_method \in {"fuzzy", "llm"}
               \/ OutsideParsedRange(ResultAt(i)) )
          => ResultAt(i).needs_review

\* C16 (as claimed): a range text "a-b" or "a - b" with 0 <= a <= b parses
\* to (a, b), "<x" parses to (None, x) and ">x" parses to (x, None).
RangeParsedAsWritten ==
    normalizer_result.called
    => \A i \in 1..Len(normalizer_result.results) :
          LET r == ResultAt(i)
          IN  /\ \A a, b \in RangeBounds, spaced \in BOOLEAN :
                    (a <= b /\ r.reference_range = RangeText(a, b, spaced))
                    => r.ref_low = Some(a) /\ r.ref_high = Some(b)
              /\ \A x \in RangeBounds :
                    /\ r.reference_range = OneSidedText("<", x)
                       => r.ref_low = NoNum /\ r.ref_high = Some(x)
                    /\ r.reference_range = OneSidedText(">", x)
                       => r.ref_low = Some(x) /\ r.ref_high = NoNum

(* ===================== claims on the panel validator =================== *)

\* the result set holds a test of this canonical name
HasTest(canonical_name) == \E r \in lab_results : r.test_name = canonical_name
InrTest == <<"I", "N", "R">>
ProthrombinTimeTest ==
    <<"P", "r", "o", "t", "h", "r", "o", "m", "b", "i", "n", " ", "T", "i", "m", "e">>
ApttTest == <<"A", "P", "T", "T">>

\* the names under which the coagulation rule lists prothrombin time
ProthrombinTimeNames == {Lower(ProthrombinTimeTest), <<"p", "t">>}

\* C17 (as claimed): for a result set with an INR test and neither a
\* prothrombin-time test nor an APTT test, validate_panel_completeness
\* returns needs_review = true and a missing-panel entry of the Coagulation
\* Panel, severity warning, whose missing list names prothrombin time.
InrWithoutPtWarned ==
    ( /\ panel_validation.called
      /\ HasTest(InrTest)
      /\ ~HasTest(ProthrombinTimeTest)
      /\ ~HasTest(ApttTest) )
    => /\ panel_validation.needs_review
       /\ \E i \in 1..Len(panel_validation.missing_panels) :
             LET entry == panel_validation.missing_panels[i]
             IN  /\ entry.panel = "Coagulation Panel"
                 /\ entry.severity = "warning"
                 /\ \E m \in 1..Len(entry.missing) :
                       entry.missing[m] \in ProthrombinTimeNames

(* ================= claims on the stages of extract ===================== *)

\* the vision extraction was made and failed or returned nothing
VisionFailed == extraction.run.vision \in {"empty"} \cup ModelFailures
\* the quality gate rejected the image
QualityRejected == extraction.run.quality = "poor"

\* C18 (as claimed): an extract call that ran the pipeline ends with
\* success = False only when the quality gate rejected the image or the
\* vision extraction failed or returned nothing; whatever else the stages
\* met, verification outcome included, the record has success = True.
OnlyGateAndExtractionAbort ==
    (extraction.called /\ ~extraction.from_cache)
    => (~extraction.success <=> (QualityRejected \/ VisionFailed))

\* C19: when the quality assessment of the image is not acceptable, extract
\* makes no rate-limiter acquire and no call of the external model.
NoCallAfterQualityReject ==
    (extraction.called /\ QualityRejected)
    => \A i \in 1..Len(extraction.calls) :
          extraction.calls[i] \notin {"acquire", "generate_content"}

\* C19 witness: an extract call missed the cache, had its image rejected by
\* the quality gate and returned success = False
NoCallAfterQualityRejectWitness ==
    /\ extraction.called
    /\ QualityRejected
    /\ ~extraction.success
    /\ extraction.error = "Image quality too poor"
    /\ lastCall.op = "extract"
    /\ lastCall.outcome = "failed"

\* ---------------------------------------------------------------------------
\* process_document under the job timeout
\* ---------------------------------------------------------------------------

JobEnded == job.pc \in {"done", "raised"}

\* C20: a document whose job ran into the 600 s timeout, at whatever
\* statement of the pipeline, has status 'failed' once the job has ended; it
\* is not left in 'processing' or 'queued' (nor marked 'completed')
TimedOutEndsFailed ==
    (job.timed_out /\ JobEnded) => document.status = "failed"

\* the same, for the statuses the claim names only
TimedOutNotLeftProcessing ==
    (job.timed_out /\ JobEnded) => document.status \notin {"processing", "queued"}

\* the timeout caught by the handler of process_document
TimedOutCaught ==
    job.timed_out /\ job.pc = "done" /\ document.status = "failed"
\* the timeout passed over inside extract, the document completed
TimedOutCompleted ==
    job.timed_out /\ job.swallowed /\ job.pc = "done"
    /\ document.status = "completed"
\* the timeout striking in the handler of process_document itself
TimedOutLeftProcessing ==
    job.timed_out /\ job.pc = "raised" /\ document.status = "processing"

\* ---------------------------------------------------------------------------
\* a rate-limit error of the vision extraction call
\* ---------------------------------------------------------------------------

VisionRateLimited ==
    extraction.called /\ ~extraction.from_cache
    /\ extraction.run.vision = "rate_limited"

\* C21: when the vision extraction call fails with a rate-limit error,
\* report_rate_limit_error is applied and the call is made again: the report
\* is not the last thing extract does with the limiter and the model, and the
\* extraction does not end with "No data extracted from image"
RateLimitedVisionRetried ==
    VisionRateLimited
    => /\ \E i \in 1..Len(extraction.calls) :
             extraction.calls[i] = "report_rate_limit_error"
       /\ extraction.calls[Len(extraction.calls)] # "report_rate_limit_error"
       /\ extraction.error # "No data extracted from image"

\* the part of it that the code does: the error is reported to the limiter
RateLimitedVisionReported ==
    VisionRateLimited
    => extraction.calls[Len(extraction.calls)] = "report_rate_limit_error"

\* ---------------------------------------------------------------------------
\* patient identity
\* ---------------------------------------------------------------------------

\* an entry from which the stated rule allows an id to be reused: an equal
\* name, or at least 2 shared words together with compatible age and gender
Qualifies(info, entry) ==
    /\ info.name # <<>>
    /\ entry.patient_name # <<>>
    /\ \/ LowerName(info.name) = LowerName(entry.patient_name)
       \/ /\ Cardinality(Words(LowerName(info.name))
                         \cap Words(LowerName(entry.patient_name))) >= 2
          /\ AgeMatch(info.age, entry.age)
          /\ GenderMatch(info.gender, entry.gender)
Qualifying(memory, info) ==
    {i \in 1..Len(memory) : Qualifies(info, memory[i])}
MostRecent(S) == CHOOSE i \in S : \A j \in S : j <= i
MemoryIds(memory) == {memory[i].patient_id : i \in 1..Len(memory)}

\* the id the stated rule gives, checked on the returned dict
IdAsStated(memory, returned) ==
    LET info == returned.given
        Q == Qualifying(memory, info)
    IN IF info.patient_id # "" THEN returned.patient_id = info.patient_id
       ELSE IF Q # {} THEN returned.patient_id = memory[MostRecent(Q)].patient_id
       ELSE /\ returned.auto_generated_id
            /\ returned.patient_id \notin MemoryIds(memory)

\* C22: a declared patient id is kept; otherwise the id of the most recent
\* ring entry with an equal name, or with at least 2 shared name words and
\* compatible age and gender, is reused; if no entry qualifies a fresh
\* generated id is assigned
PatientIdAsStated ==
    [][processed' # processed => IdAsStated(patient_memory, patient_info')]_vars

\* a declared id is returned unchanged
DeclaredIdKept ==
    patient_info.given.patient_id # ""
    => patient_info.patient_id = patient_info.given.patient_id
\* an id is generated only when nothing was declared and nothing matched
GeneratedIdIsNew ==
    [][(processed' # processed /\ patient_info'.auto_generated_id)
       => patient_info'.patient_id \notin MemoryIds(patient_memory)]_vars

\* ---------------------------------------------------------------------------
\* the quality gate
\* ---------------------------------------------------------------------------

\* C23: evaluate_ocr_quality accepts an image only if its score is at least
\* 0.3, its blur score is not below the critical threshold, it is not both
\* below the warning blur threshold and of text clarity under 0.5, it is not
\* both of contrast over 85 and of text clarity under 0.45, and its text
\* clarity is at least 0.25; an image of contrast 90 and text clarity 0.3 is
\* rejected whatever its score
AcceptedOnlyIfReadable ==
    /\ (quality.evaluated /\ quality.is_acceptable)
       => /\ quality.quality_score >= 3000
          /\ quality.metrics.blur_score >= QUALITY_THRESHOLDS.blur_score_critical
          /\ ~(/\ quality.metrics.blur_score < QUALITY_THRESHOLDS.blur_score
               /\ quality.metrics.text_clarity < 50)
          /\ ~(quality.metrics.contrast > 85 /\ quality.metrics.text_clarity < 45)
          /\ quality.metrics.text_clarity >= 25
    /\ (/\ quality.evaluated
        /\ quality.metrics.contrast = 90
        /\ quality.metrics.text_clarity = 30)
       => ~quality.is_acceptable

\* a sharp image of contrast 90 and text clarity 0.3 with a mid-range score,
\* rejected
NoisyScanRejected ==
    /\ quality.evaluated
    /\ quality.metrics.contrast = 90
    /\ quality.metrics.text_clarity = 30
    /\ quality.metrics.blur_score >= QUALITY_THRESHOLDS.blur_score
    /\ quality.quality_score >= 5000
    /\ ~quality.is_acceptable

\* ---------------------------------------------------------------------------
\* the batch path
\* ---------------------------------------------------------------------------

\* C24: in _process_single_image an image without a cache entry is admitted
\* through the limiter's acquire_async and goes on to its two external
\* calls; it is reported failed only if one of those calls fails, so a
\* scheduled image is never resolved as failed by the admission itself, and
\* with both calls succeeding it is reported successful, from_cache false
UncachedImageReachesItsCalls ==
    [][\A i \in DOMAIN tasks :
          (tasks[i] = "scheduled" /\ i \in DOMAIN tasks')
          => tasks'[i] \in {"scheduled", "cached", "vision"}]_vars

\* ---------------------------------------------------------------------------
\* a second extraction of the same bytes
\* ---------------------------------------------------------------------------

\* C25: when extract answers from the cache for bytes whose previous
\* extraction succeeded, it returns the record that the first extraction
\* returned: the same success flag, lab_results, patient_info, metadata,
\* confidence, issues and summary
SecondExtractSameRecord ==
    (/\ lastCall.op = "extract"
     /\ lastCall.outcome = "hit"
     /\ lastCall.prev.op = "extract"
     /\ lastCall.prev.outcome = "success"
     /\ lastCall.prev.doc.bytes = lastCall.doc.bytes)
    => (extraction.success /\ extraction.record = lastCall.prev.arg)

\* what the hit does return: success, and the entry that was written is the
\* one that was found
SecondExtractFindsEntry ==
    (/\ lastCall.op = "extract"
     /\ lastCall.outcome = "hit"
     /\ lastCall.prev.op = "extract"
     /\ lastCall.prev.outcome = "success"
     /\ lastCall.prev.doc.bytes = lastCall.doc.bytes)
    => (extraction.success /\ lastCall.ret.result = lastCall.prev.arg)

\* ---------------------------------------------------------------------------
\* admission of the calls to the model
\* ---------------------------------------------------------------------------

\* C26: every call to the external model that extract makes for one document
\* comes directly after a rate-limiter acquire of its own
EveryModelCallAcquires ==
    \A i \in 1..Len(extraction.calls) :
       extraction.calls[i] = "generate_content"
       => (i > 1 /\ extraction.calls[i - 1] = "acquire")

\* the calls made by extract itself (verification, vision extraction and
\* validation) do: the first calls of a run, up to the normalizer
FirstTwoCallsAcquire ==
    \A i \in 1..Len(extraction.calls) :
       (/\ extraction.calls[i] = "generate_content"
        /\ Cardinality({j \in 1..i : extraction.calls[j] = "generate_content"}) <= 2)
       => (i > 1 /\ extraction.calls[i - 1] = "acquire")

\* ---------------------------------------------------------------------------
\* what process_document_batch leaves behind
\* ---------------------------------------------------------------------------

BatchReturned == phase = "returned" /\ processor.entry = "documents"

\* C27: however process_document_batch returns (normal completion, 'No valid
\* documents found', 'Gemini API key not configured'), the job record it
\* created is no longer 'processing' and no document is still 'processing'
NothingLeftInProgress ==
    BatchReturned
    => /\ tracker.status # "processing"
       /\ \A d \in DocIds : documents[d].status # "processing"

\* the same for a normal completion of documents that all have their own
\* image path
NothingLeftAfterCompletion ==
    (/\ BatchReturned
     /\ results.error = "none"
     /\ \A d, e \in DocIds :
           (documents[d].exists /\ documents[e].exists /\ d # e)
           => documents[d].file_path # documents[e].file_path)
    => /\ tracker.status # "processing"
       /\ \A d \in DocIds : documents[d].status # "processing"

\* ---------------------------------------------------------------------------
\* clear_all
\* ---------------------------------------------------------------------------

BothTiersReachable ==
    Tier1(cacheConfig) /\ Tier2(cacheConfig) /\ redisUp /\ diskUp

\* C28: on a cache whose two tiers are reachable, a lookup made right after
\* clear_all has returned finds nothing, whatever was stored before
ClearAllEmptiesTheCache ==
    (/\ lastCall.op = "get"
     /\ lastCall.prev.op = "clear_all"
     /\ ~lastCall.prev.raised
     /\ BothTiersReachable)
    => ~lastCall.ret.present

\* Tier 1 is emptied: the lookup after clear_all is not answered by Redis
ClearAllEmptiesRedis ==
    (/\ lastCall.op = "get"
     /\ lastCall.prev.op = "clear_all"
     /\ BothTiersReachable)
    => lastCall.t1 = "miss"

\* ---------------------------------------------------------------------------
\* CacheStats
\* ---------------------------------------------------------------------------

\* CacheStats.total_hits, total_requests and hit_rate (in thousandths)
total_hits(st) == st.redis_hits + st.disk_hits
total_requests(st) == st.redis_hits + st.redis_misses
hit_rate(st) ==
    IF total_requests(st) = 0 THEN 0
    ELSE (total_hits(st) * 1000) \div total_requests(st)

\* the step is one get_cached_result call
LookupStep == nCalls' = nCalls + 1 /\ lastCall'.op = "get"

\* the lookup added one hit or miss to each tier it consulted, nothing else
CountedOncePerTier ==
    /\ stats'.redis_hits + stats'.redis_misses =
         stats.redis_hits + stats.redis_misses
           + (IF Tier1(cacheConfig) THEN 1 ELSE 0)
    /\ stats'.disk_hits + stats'.disk_misses =
         stats.disk_hits + stats.disk_misses
           + (IF lastCall'.t2 # "skip" THEN 1 ELSE 0)
    /\ lastCall'.t1 = "hit" <=> stats'.redis_hits = stats.redis_hits + 1
    /\ lastCall'.t2 = "hit" <=> stats'.disk_hits = stats.disk_hits + 1
    /\ stats'.cache_writes = stats.cache_writes

\* the quotient behind hit_rate follows the lookups: its denominator grows by
\* one with every lookup, its numerator by one with every lookup served
RateFollowsLookup ==
    /\ total_requests(stats') = total_requests(stats) + 1
    /\ total_hits(stats') =
         total_hits(stats) + (IF lastCall'.ret.present THEN 1 ELSE 0)
    /\ hit_rate(stats') >= 0 /\ hit_rate(stats') <= 1000
    /\ lastCall'.ret.present => hit_rate(stats') > 0

\* C29: for every combination of enabled tiers, each lookup adds exactly one
\* hit or miss to every tier it consulted, and hit_rate is the hits divided
\* by the lookups made (between 0 and 1, positive once a lookup was served)
StatsConsistentWithLookups ==
    [][(LookupStep /\ (Tier1(cacheConfig) \/ Tier2(cacheConfig)))
          => (CountedOncePerTier /\ RateFollowsLookup)]_vars

\* the tier counters alone are right for every combination of tiers
TierCountersConsistent ==
    [][LookupStep => CountedOncePerTier]_vars

\* with Redis enabled the hit rate is right as well
RateConsistentWithRedis ==
    [][(LookupStep /\ Tier1(cacheConfig)) => RateFollowsLookup]_vars

\* ---------------------------------------------------------------------------
\* the Coagulation Panel rule
\* ---------------------------------------------------------------------------

\* the result set holds a test carrying this name, as its canonical or as
\* its original name
HasTestNamed(name) ==
    \E r \in lab_results : r.test_name = name \/ r.original_name = name
PtAbbreviation == <<"P", "T">>

\* the Coagulation Panel rule was reported incomplete
CoagulationIncomplete ==
    \E i \in 1..Len(panel_validation.missing_panels) :
        panel_validation.missing_panels[i].panel = "Coagulation Panel"

\* C30: for every result set that holds INR together with a prothrombin-time
\* test, named 'Prothrombin Time' or 'PT', validate reports the Coagulation
\* Panel rule as complete: no missing tests, no review reason from it
CoagulationCompleteWithPt ==
    ( /\ panel_validation.called
      /\ HasTestNamed(InrTest)
      /\ (HasTestNamed(ProthrombinTimeTest) \/ HasTestNamed(PtAbbreviation)) )
    => ~CoagulationIncomplete

\* the rule is complete when the result set carries both names it lists
CoagulationCompleteWithBothNames ==
    ( /\ panel_validation.called
      /\ HasTestNamed(InrTest)
      /\ HasTestNamed(ProthrombinTimeTest)
      /\ HasTestNamed(PtAbbreviation) )
    => ~CoagulationIncomplete

====
